---- MODULE Spec2Model ----
(***************************************************************************)
(* A model of the conformal lattice planner's TrafficLattice               *)
(* (src/src/planner/common/traffic_lattice.cpp).                           *)
(*                                                                         *)
(* The road is a grid of waypoints: lanes 1 and 2 (lane l-1 is the         *)
(* left neighbour of lane l, lane l+1 its right neighbour), longitudinal   *)
(* positions 0..RoadLen at the lattice resolution of 1.0 m.  The lattice   *)
(* holds the nodes of the positions lattice_root..lattice_end; the         *)
(* distance of a node is its position minus lattice_root.                  *)
(***************************************************************************)
EXTENDS Integers, Sequences, FiniteSets, TLC

\* ------------------------------------------------------------------ bounds
RoadLen == 3
MaxExtent == 1

Lanes == {1, 2}
Positions == 0..RoadLen
VehicleIds == {1, 2}

\* A waypoint is <<lane, position>>; OffRoute is a waypoint whose road is not
\* on the router's route (no lattice node can be found for it).
OffRoute == <<0, 0>>
RoadNodes == Lanes \X Positions
\* An absent node (a null pointer) and an absent vehicle (boost::none).
NoNode == <<0, 0>>
NoVehicle == 0

VARIABLES
  node_vehicle,             \* node -> occupant (Node::vehicle()), NoVehicle if none
  vehicle_to_nodes_table_,  \* registered vehicle id -> sequence of its nodes
  lattice_root,             \* position of the lattice root (distance 0)
  lattice_end,              \* position of the last node of every lane
  tracked,                  \* caller side: registered vehicle id -> its waypoints
  last,                     \* the observed call: its arguments, the state before
                            \* it and what it returned (NoCall: none observed yet)
  station,                  \* a Station of the IDM lattice planner: its parent slots
  planner,                  \* an IDMLatticePlanner: lattice, stations, table, root, cache
  world,                    \* what path synthesis and the simulator answer
  node_to_vertices_table_   \* spatiotemporal planner: node id -> vertex per speed interval

vars == <<node_vehicle, vehicle_to_nodes_table_, lattice_root, lattice_end, tracked, last,
          station, planner, world, node_to_vertices_table_>>
trafficVars == <<node_vehicle, vehicle_to_nodes_table_, lattice_root, lattice_end, tracked>>

\* ------------------------------------------------------------ the lattice
\* Lattice::closestNode on the grid: the node of the waypoint, if the lattice
\* still holds it.
closestNode(w, lo, hi) ==
  IF w /= OffRoute /\ w[1] \in Lanes /\ w[2] >= lo /\ w[2] <= hi THEN w ELSE NoNode

NodeFront(n, lo, hi) == IF n[2] + 1 <= hi THEN <<n[1], n[2] + 1>> ELSE NoNode
NodeBack(n, lo, hi) == IF n[2] - 1 >= lo THEN <<n[1], n[2] - 1>> ELSE NoNode
NodeLeft(n, lo, hi) == IF (n[1] - 1) \in Lanes THEN <<n[1] - 1, n[2]>> ELSE NoNode
NodeRight(n, lo, hi) == IF (n[1] + 1) \in Lanes THEN <<n[1] + 1, n[2]>> ELSE NoNode
NodeDistance(n, lo) == n[2] - lo

Reverse(s) == [i \in 1..Len(s) |-> s[Len(s) + 1 - i]]
Range(s) == {s[i] : i \in 1..Len(s)}

\* ------------------------------------------------------------- addVehicle
\* The loop of lines 506-516: forward from the rear node until the mid node
\* or a lane neighbour of the mid node is met, or the lattice ends.
RECURSIVE RearNodeForward(_, _, _, _)
RearNodeForward(next_node, mid_node, lo, hi) ==
  IF next_node = mid_node THEN <<>>
  ELSE IF NodeLeft(mid_node, lo, hi) /= NoNode /\ next_node = NodeLeft(mid_node, lo, hi) THEN <<>>
  ELSE IF NodeRight(mid_node, lo, hi) /= NoNode /\ next_node = NodeRight(mid_node, lo, hi) THEN <<>>
  ELSE IF NodeFront(next_node, lo, hi) = NoNode THEN <<next_node>>
  ELSE <<next_node>> \o RearNodeForward(NodeFront(next_node, lo, hi), mid_node, lo, hi)

\* HeadNodeBackward that does not stop at the mid node.
RECURSIVE HeadNodeBackwardPastMid(_, _, _, _)
HeadNodeBackwardPastMid(next_node, mid_node, lo, hi) ==
  IF NodeBack(next_node, lo, hi) = NoNode THEN <<next_node>>
  ELSE <<next_node>> \o HeadNodeBackwardPastMid(NodeBack(next_node, lo, hi), mid_node, lo, hi)

\* The loop of lines 520-530: backward from the head node (before the reversal).
RECURSIVE HeadNodeBackward(_, _, _, _)
HeadNodeBackward(next_node, mid_node, lo, hi) ==
  IF next_node = mid_node THEN <<>>
  ELSE IF NodeLeft(mid_node, lo, hi) /= NoNode /\ next_node = NodeLeft(mid_node, lo, hi) THEN <<>>
  ELSE IF NodeRight(mid_node, lo, hi) /= NoNode /\ next_node = NodeRight(mid_node, lo, hi) THEN <<>>
  ELSE IF NodeBack(next_node, lo, hi) = NoNode THEN <<next_node>>
  ELSE <<next_node>> \o HeadNodeBackward(NodeBack(next_node, lo, hi), mid_node, lo, hi)

\* Lines 533-536: rear walk, mid node, reversed head walk.
CollectNodes(rear_node, mid_node, head_node, lo, hi) ==
  RearNodeForward(rear_node, mid_node, lo, hi)
    \o <<mid_node>>
    \o Reverse(HeadNodeBackward(head_node, mid_node, lo, hi))

\* MarkNodes without the occupancy test: an occupied node is overwritten.
RECURSIVE MarkNodesOverwriting(_, _, _, _)
MarkNodesOverwriting(veh, nodes, i, id) ==
  IF i > Len(nodes) THEN [collision_flag |-> FALSE, veh |-> veh]
  ELSE MarkNodesOverwriting([veh EXCEPT ![nodes[i]] = id], nodes, i + 1, id)

\* Lines 540-547: mark the nodes in order, stop at the first occupied one.
RECURSIVE MarkNodes(_, _, _, _)
MarkNodes(veh, nodes, i, id) ==
  IF i > Len(nodes) THEN [collision_flag |-> FALSE, veh |-> veh]
  ELSE IF veh[nodes[i]] /= NoVehicle THEN [collision_flag |-> TRUE, veh |-> veh]
  ELSE MarkNodes([veh EXCEPT ![nodes[i]] = id], nodes, i + 1, id)

\* EraseTouched that leaves the marks of the failed attempt in place.
EraseTouchedNothing(veh, nodes, id) == veh

\* EraseTouched that unmarks every node of the list, whoever occupies it.
EraseTouchedAnyId(veh, nodes, id) ==
  [n \in DOMAIN veh |-> IF n \in Range(nodes) THEN NoVehicle ELSE veh[n]]

\* Lines 556-560: unmark the nodes of the list that carry this id.
EraseTouched(veh, nodes, id) ==
  [n \in DOMAIN veh |->
     IF n \in Range(nodes) /\ veh[n] /= NoVehicle /\ veh[n] = id THEN NoVehicle ELSE veh[n]]

\* TrafficLattice::addVehicle(vehicle, waypoints); wp = <<rear, mid, head>>.
addVehicle(veh, tbl, lo, hi, id, wp) ==
  IF id \in DOMAIN tbl THEN [ret |-> 0, veh |-> veh, tbl |-> tbl]
  ELSE
    LET head_node == closestNode(wp[3], lo, hi)
        rear_node == closestNode(wp[1], lo, hi)
        mid_node  == closestNode(wp[2], lo, hi)
    IN IF head_node = NoNode \/ rear_node = NoNode \/ mid_node = NoNode
       THEN [ret |-> 0, veh |-> veh, tbl |-> tbl]
       ELSE
         LET nodes == CollectNodes(rear_node, mid_node, head_node, lo, hi)
             m == MarkNodes(veh, nodes, 1, id)
         IN IF ~m.collision_flag
            THEN [ret |-> 1, veh |-> m.veh,
                  tbl |-> [v \in DOMAIN tbl \cup {id} |-> IF v = id THEN nodes ELSE tbl[v]]]
            ELSE [ret |-> -1, veh |-> EraseTouched(m.veh, nodes, id), tbl |-> tbl]

\* deleteVehicle that erases the table entry and leaves the nodes marked.
deleteVehicleKeepingMarks(veh, tbl, id) ==
  IF id \notin DOMAIN tbl THEN [ret |-> 0, veh |-> veh, tbl |-> tbl]
  ELSE [ret |-> 1, veh |-> veh, tbl |-> [v \in DOMAIN tbl \ {id} |-> tbl[v]]]

\* TrafficLattice::deleteVehicle.
deleteVehicle(veh, tbl, id) ==
  IF id \notin DOMAIN tbl THEN [ret |-> 0, veh |-> veh, tbl |-> tbl]
  ELSE [ret |-> 1,
        veh |-> [n \in DOMAIN veh |-> IF n \in Range(tbl[id]) THEN NoVehicle ELSE veh[n]],
        tbl |-> [v \in DOMAIN tbl \ {id} |-> tbl[v]]]

\* ------------------------------------------------------- registerVehicles
\* RegisterLoop that does not report the vehicles it could not add.
RECURSIVE RegisterLoopForgetting(_, _, _, _, _, _, _, _)
RegisterLoopForgetting(veh, tbl, lo, hi, order, wps, i, removed) ==
  IF i > Len(order)
  THEN [valid |-> TRUE, veh |-> veh, tbl |-> tbl, removed |-> removed]
  ELSE LET r == addVehicle(veh, tbl, lo, hi, order[i], wps[order[i]])
       IN IF r.ret = -1
          THEN [valid |-> FALSE, veh |-> r.veh, tbl |-> r.tbl, removed |-> removed]
          ELSE RegisterLoopForgetting(r.veh, r.tbl, lo, hi, order, wps, i + 1, removed)

\* TrafficLattice::registerVehicles: the table is cleared, then the vehicles are
\* added in the order of the input vector; the first collision ends the loop.
RECURSIVE RegisterLoop(_, _, _, _, _, _, _, _)
RegisterLoop(veh, tbl, lo, hi, order, wps, i, removed) ==
  IF i > Len(order)
  THEN [valid |-> TRUE, veh |-> veh, tbl |-> tbl, removed |-> removed]
  ELSE LET r == addVehicle(veh, tbl, lo, hi, order[i], wps[order[i]])
       IN IF r.ret = 0
          THEN RegisterLoop(r.veh, r.tbl, lo, hi, order, wps, i + 1, removed \cup {order[i]})
          ELSE IF r.ret = -1
          THEN [valid |-> FALSE, veh |-> r.veh, tbl |-> r.tbl, removed |-> removed]
          ELSE RegisterLoop(r.veh, r.tbl, lo, hi, order, wps, i + 1, removed)

\* Lines 876-879: the set of the caller is written after the loop only; a
\* collision returns before, and the set stays as the caller passed it (empty,
\* at every call site).
WriteDisappearVehicles(r) == IF r.valid THEN r ELSE [r EXCEPT !.removed = {}]

registerVehicles(veh, lo, hi, order, wps) ==
  WriteDisappearVehicles(RegisterLoop(veh, << >>, lo, hi, order, wps, 1, {}))

\* ------------------------------------------------------------- loop router
\* LoopRouter::LoopRouter: the roads of the loop in driving order.
road_sequence_ ==
  <<47, 558, 48, 887, 49, 717, 50, 42, 276, 43, 35, 636, 36,
    540, 37, 1021, 38, 678, 39, 728, 40, 841, 41, 6, 45, 103,
    46, 659>>

\* std::find on road_sequence_: the index of the first occurrence of the road,
\* or one past the last index (end()).
FindRoad(road) ==
  IF \E i \in 1..Len(road_sequence_) : road_sequence_[i] = road
  THEN CHOOSE i \in 1..Len(road_sequence_) :
         /\ road_sequence_[i] = road
         /\ \A j \in 1..(i - 1) : road_sequence_[j] /= road
  ELSE Len(road_sequence_) + 1

\* The answer of nextRoad and prevRoad: a road, or the error thrown.
RoadAnswer(road) == [err |-> "", road |-> road]
NotOnRoute == [err |-> "not-on-route", road |-> 0]

\* nextRoad that does not close the loop after the last road.
nextRoadOpen(road) ==
  IF FindRoad(road) = Len(road_sequence_) + 1 THEN NotOnRoute
  ELSE IF FindRoad(road) /= Len(road_sequence_)
  THEN RoadAnswer(road_sequence_[FindRoad(road) + 1])
  ELSE RoadAnswer(road_sequence_[Len(road_sequence_)])

\* LoopRouter::nextRoad(road).
nextRoad(road) ==
  IF FindRoad(road) = Len(road_sequence_) + 1 THEN NotOnRoute
  ELSE IF FindRoad(road) /= Len(road_sequence_)
  THEN RoadAnswer(road_sequence_[FindRoad(road) + 1])
  ELSE RoadAnswer(road_sequence_[1])

\* LoopRouter::prevRoad(road).
prevRoad(road) ==
  IF FindRoad(road) = Len(road_sequence_) + 1 THEN NotOnRoute
  ELSE IF FindRoad(road) /= 1
  THEN RoadAnswer(road_sequence_[FindRoad(road) - 1])
  ELSE RoadAnswer(road_sequence_[Len(road_sequence_)])

\* --------------------------------------------------------------- sortRoads
\* The chain of roads while it is built: the deque sorted_roads and the set
\* remaining_roads.
ExpansionTimes == 8

\* Lines 904-911: the road before the first road of the chain is pushed to
\* the front and taken off the remaining roads.
PrependPrevRoad(chain) ==
  [sorted |-> <<prevRoad(Head(chain.sorted)).road>> \o chain.sorted,
   remaining |-> chain.remaining \ {prevRoad(Head(chain.sorted)).road}]

\* Lines 905-915: the road after the last road of the chain is pushed to the
\* back and taken off the remaining roads.
AppendNextRoad(chain) ==
  [sorted |-> Append(chain.sorted, nextRoad(chain.sorted[Len(chain.sorted)]).road),
   remaining |-> chain.remaining \ {nextRoad(chain.sorted[Len(chain.sorted)]).road}]

\* Lines 898-917: the chain is expanded at both ends, at most 8 times and
\* until no road remains.
RECURSIVE ExpandChain(_, _)
ExpandChain(chain, i) ==
  IF i >= ExpansionTimes THEN chain
  ELSE IF AppendNextRoad(PrependPrevRoad(chain)).remaining = {}
  THEN AppendNextRoad(PrependPrevRoad(chain))
  ELSE ExpandChain(AppendNextRoad(PrependPrevRoad(chain)), i + 1)

\* Lines 942-945: roads that are not input roads are popped from the front,
\* then from the back.
RECURSIVE TrimFront(_, _)
TrimFront(roads, sorted) ==
  IF Head(sorted) \in roads THEN sorted ELSE TrimFront(roads, Tail(sorted))
RECURSIVE TrimBack(_, _)
TrimBack(roads, sorted) ==
  IF sorted[Len(sorted)] \in roads THEN sorted
  ELSE TrimBack(roads, SubSeq(sorted, 1, Len(sorted) - 1))

\* Lines 919-947: the error when a road remains, and else the trimmed chain.
SortedRoads(roads, chain) ==
  IF chain.remaining /= {} THEN [err |-> "roads-not-on-local-chain", sorted |-> << >>]
  ELSE [err |-> "", sorted |-> TrimBack(roads, TrimFront(roads, chain.sorted))]

\* sortRoads that returns the chain as the expansions left it.
sortRoadsUntrimmed(roads, seed) ==
  IF ExpandChain([sorted |-> <<seed>>, remaining |-> roads \ {seed}], 0).remaining /= {}
  THEN [err |-> "roads-not-on-local-chain", sorted |-> << >>]
  ELSE [err |-> "",
        sorted |-> ExpandChain([sorted |-> <<seed>>, remaining |-> roads \ {seed}], 0).sorted]

\* TrafficLattice::sortRoads(roads) with the router of the loop; seed is the
\* road *(remaining_roads.begin()) gives, any road of the unordered set.
sortRoads(roads, seed) ==
  SortedRoads(roads, ExpandChain([sorted |-> <<seed>>, remaining |-> roads \ {seed}], 0))

\* ---------------------------------------------------- latticeStartAndRange
SetMin(S) == CHOOSE x \in S : \A y \in S : x <= y
SetMax(S) == CHOOSE x \in S : \A y \in S : x >= y

\* The one element of a set whose elements are all equal (no value when they
\* are not).
Only(S) == CHOOSE x \in S : \A y \in S : y = x

\* The roads of the waypoints: the positions 0..RoadLen lie on the first road
\* of the loop, and FarWaypoint is the first waypoint of a road of the loop
\* that is sixteen roads further on (twelve roads back).
LatticeRoad == 47
FarRoad == 38
FarWaypoint == <<1, RoadLen + 1>>
GetRoadId(w) == IF w[2] > RoadLen THEN FarRoad ELSE LatticeRoad
waypointToRoadStartDistance(w) == IF w[2] > RoadLen THEN w[2] - (RoadLen + 1) ELSE w[2]
\* The length of a road (the roads of the model are of one length).
GetLength(road) == RoadLen

\* Lines 744-760: the waypoints of the input vehicles that lie on a road of
\* the route (router_->hasRoad).
OnRouteWaypoints(ids, wps) ==
  {w \in UNION {Range(wps[v]) : v \in ids} : w /= OffRoute}

\* Lines 776-801: the roads of the waypoints are sorted into a chain, and the
\* error of sortRoads is thrown on.  The road the unordered set hands out first
\* is the seed of the chain; for the roads of the model every seed gives the
\* same answer (the answers are worked out once for every set of these roads).
SortedRoadsTable ==
  {[roads |-> roads, chain |-> Only({sortRoads(roads, seed) : seed \in roads})] :
     roads \in (SUBSET {LatticeRoad, FarRoad}) \ {{}}}
SortedRoadsOf(roads) == (CHOOSE sorted \in SortedRoadsTable : sorted.roads = roads).chain

\* Lines 819-822: the lengths of the roads of the chain, summed up.
RECURSIVE RoadLengths(_)
RoadLengths(sorted_roads) ==
  IF sorted_roads = << >> THEN 0
  ELSE GetLength(Head(sorted_roads)) + RoadLengths(Tail(sorted_roads))

\* Lines 803-837: the start is the waypoint of the first road of the chain
\* closest to the start of that road, the range the distance from it to the
\* waypoint of the last road that is farthest from the start of that road.
\* Among waypoints at the same distance the first after the sort of line 765
\* is one the code does not fix (the vehicles are gone through in the order of
\* an unordered_map, and std::sort keeps no order among equals): starts holds
\* every waypoint the call can hand out.
FirstToLast(first_road_waypoints, last_road_waypoints, sorted_roads) ==
  [defined |-> TRUE, err |-> "",
   starts |-> {w \in first_road_waypoints :
                 \A other \in first_road_waypoints :
                   waypointToRoadStartDistance(w) <= waypointToRoadStartDistance(other)},
   range |-> RoadLengths(sorted_roads)
             - SetMin({waypointToRoadStartDistance(w) : w \in first_road_waypoints})
             - (GetLength(sorted_roads[Len(sorted_roads)])
                - SetMax({waypointToRoadStartDistance(w) : w \in last_road_waypoints}))]

StartAndRangeOnRoads(ws, chain) ==
  IF chain.err /= ""
  THEN [defined |-> TRUE, err |-> chain.err, starts |-> {}, range |-> 0]
  ELSE FirstToLast({w \in ws : GetRoadId(w) = Head(chain.sorted)},
                   {w \in ws : GetRoadId(w) = chain.sorted[Len(chain.sorted)]},
                   chain.sorted)

\* TrafficLattice::latticeStartAndRange.  Without a waypoint on the route
\* sortRoads reads the first element of an empty set (line 894): the result is
\* not defined.  When the roads cannot be sorted the error is thrown on.
latticeStartAndRange(ids, wps) ==
  IF OnRouteWaypoints(ids, wps) = {}
  THEN [defined |-> FALSE, err |-> "", starts |-> {}, range |-> 0]
  ELSE StartAndRangeOnRoads(OnRouteWaypoints(ids, wps),
                            SortedRoadsOf({GetRoadId(w) : w \in OnRouteWaypoints(ids, wps)}))

\* The position of the start waypoint of a result: the waypoints of starts
\* differ in their lane only.
StartDistance(sr) == Only({w[2] : w \in sr.starts})

\* Lines 615-616: the nodes closestNode can find for the start waypoint, one
\* for each waypoint the start can be, side by side on the lattice or none.
UpdateStartNodes(sr, lo, hi) == {closestNode(w, lo, hi) : w \in sr.starts}

\* ----------------------------------------------------- moveTrafficForward
\* Lines 598-603: every node of the table is unmarked and the table cleared.
ClearVehicles(veh, tbl) ==
  [n \in DOMAIN veh |->
     IF \E v \in DOMAIN tbl : n \in Range(tbl[v]) THEN NoVehicle ELSE veh[n]]

\* Lattice::shorten(range) drops nodes at the rear of the lattice so that the
\* root advances by range: the new root position.
shorten(lo, hi, range) == IF range > 0 THEN lo + range ELSE lo

\* Lattice::extend(range) grows the lattice at the front up to the given range
\* (never beyond the end of the road): the new end position.
extend(lo, hi, range) ==
  IF range > hi - lo THEN (IF lo + range <= RoadLen THEN lo + range ELSE RoadLen) ELSE hi

\* The set test that only looks for a tracked vehicle without an update.
SetMismatchMissingOnly(tbl, order) == \E v \in DOMAIN tbl : v \notin Range(order)

\* Lines 571-579: the updated ids are not exactly the tracked ids.
SetMismatch(tbl, order) == DOMAIN tbl /= Range(order)

\* TrafficLattice::moveTrafficForward(vehicles, disappear_vehicles); order is the
\* sequence of the ids of the input vector, wps the waypoints of each.
moveTrafficForward(veh, tbl, lo, hi, order, wps) ==
  IF SetMismatch(tbl, order)
  THEN [err |-> "set-mismatch", valid |-> FALSE, veh |-> veh, tbl |-> tbl,
        lo |-> lo, hi |-> hi, removed |-> {}]
  ELSE
    LET cleared == ClearVehicles(veh, tbl)
        sr == latticeStartAndRange(Range(order), wps)
        update_start_nodes == UpdateStartNodes(sr, lo, hi)
    IN IF ~sr.defined
       THEN [err |-> "undefined", valid |-> FALSE, veh |-> cleared, tbl |-> << >>,
             lo |-> lo, hi |-> hi, removed |-> {}]
       ELSE IF sr.err /= ""
       THEN [err |-> sr.err, valid |-> FALSE, veh |-> cleared, tbl |-> << >>,
             lo |-> lo, hi |-> hi, removed |-> {}]
       ELSE IF NoNode \in update_start_nodes
       THEN [err |-> "start-not-found", valid |-> FALSE, veh |-> cleared, tbl |-> << >>,
             lo |-> lo, hi |-> hi, removed |-> {}]
       ELSE
         LET lo2 == shorten(lo, hi, (hi - lo)
                                      - Only({NodeDistance(n, lo) : n \in update_start_nodes}))
             hi2 == extend(lo2, hi, sr.range)
             r == registerVehicles(cleared, lo2, hi2, order, wps)
         IN [err |-> "", valid |-> r.valid, veh |-> r.veh, tbl |-> r.tbl,
             lo |-> lo2, hi |-> hi2, removed |-> r.removed]

\* Lattice::shift(movement), shorten(movement) and then extend(range of
\* before): the rear is dropped up to the movement and the front grown back to
\* the range of before (never beyond the end of the road).
shift(lo, hi, movement) ==
  [lo |-> shorten(lo, hi, movement),
   hi |-> extend(shorten(lo, hi, movement), hi, hi - lo)]

\* TrafficManager::moveTrafficForward(vehicles, shift_distance,
\* disappear_vehicles): the updated ids have to be the tracked ones; the lattice
\* is shifted forward by shift_distance with its range kept, and the vehicles
\* are registered on it again.
TrafficManager_moveTrafficForward(veh, tbl, lo, hi, order, wps, shift_distance) ==
  IF SetMismatch(tbl, order)
  THEN [err |-> "set-mismatch", valid |-> FALSE, veh |-> veh, tbl |-> tbl,
        lo |-> lo, hi |-> hi, removed |-> {}]
  ELSE
    LET shifted == shift(lo, hi, shift_distance)
        r == registerVehicles(ClearVehicles(veh, tbl), shifted.lo, shifted.hi, order, wps)
    IN [err |-> "", valid |-> r.valid, veh |-> r.veh, tbl |-> r.tbl,
        lo |-> shifted.lo, hi |-> shifted.hi, removed |-> r.removed]

\* ---------------------------------------------------------------- queries
\* The first and the last node of a vehicle's node list.
vehicleRearNode(tbl, v) == tbl[v][1]
vehicleHeadNode(tbl, v) == tbl[v][Len(tbl[v])]

\* An absent result (boost::none) of the neighbour queries; a result is
\* <<vehicle id, distance>>.
NoResult == <<NoVehicle, 0>>

\* TrafficLattice::frontVehicle: the loop from start->front() on.
RECURSIVE FrontVehicleLoop(_, _, _, _, _)
FrontVehicleLoop(veh, lo, hi, start, front_node) ==
  IF front_node = NoNode THEN NoResult
  ELSE IF veh[front_node] /= NoVehicle
  THEN <<veh[front_node], NodeDistance(front_node, lo) - NodeDistance(start, lo)>>
  ELSE FrontVehicleLoop(veh, lo, hi, start, NodeFront(front_node, lo, hi))

\* frontVehicle that starts its search at the start node itself.
frontVehicleFromStart(veh, lo, hi, start) ==
  FrontVehicleLoop(veh, lo, hi, start, start)

frontVehicle(veh, lo, hi, start) ==
  FrontVehicleLoop(veh, lo, hi, start, NodeFront(start, lo, hi))

\* TrafficLattice::backVehicle: the loop from start->back() on.
RECURSIVE BackVehicleLoop(_, _, _, _, _)
BackVehicleLoop(veh, lo, hi, start, back_node) ==
  IF back_node = NoNode THEN NoResult
  ELSE IF veh[back_node] /= NoVehicle
  THEN <<veh[back_node], NodeDistance(start, lo) - NodeDistance(back_node, lo)>>
  ELSE BackVehicleLoop(veh, lo, hi, start, NodeBack(back_node, lo, hi))

\* backVehicle that starts its search at the start node itself.
backVehicleFromStart(veh, lo, hi, start) ==
  BackVehicleLoop(veh, lo, hi, start, start)

backVehicle(veh, lo, hi, start) ==
  BackVehicleLoop(veh, lo, hi, start, NodeBack(start, lo, hi))

\* TrafficLattice::front and TrafficLattice::back of a registered vehicle.
front(veh, tbl, lo, hi, v) == frontVehicle(veh, lo, hi, vehicleHeadNode(tbl, v))
back(veh, tbl, lo, hi, v) == backVehicle(veh, lo, hi, vehicleRearNode(tbl, v))

\* leftFront that measures to the head node of the vehicle on the left node.
leftFrontToHead(veh, tbl, lo, hi, v) ==
  LET start == vehicleHeadNode(tbl, v)
      left == NodeLeft(start, lo, hi)
  IN IF left = NoNode THEN NoResult
     ELSE IF veh[left] = NoVehicle THEN FrontVehicleLoop(veh, lo, hi, left, NodeFront(left, lo, hi))
     ELSE <<veh[left],
            NodeDistance(vehicleHeadNode(tbl, veh[left]), lo) - NodeDistance(start, lo)>>

\* TrafficLattice::leftFront of a registered vehicle.
leftFront(veh, tbl, lo, hi, v) ==
  LET start == vehicleHeadNode(tbl, v)
      left == NodeLeft(start, lo, hi)
  IN IF left = NoNode THEN NoResult
     ELSE IF veh[left] = NoVehicle THEN frontVehicle(veh, lo, hi, left)
     ELSE <<veh[left],
            NodeDistance(vehicleRearNode(tbl, veh[left]), lo) - NodeDistance(start, lo)>>

\* TrafficLattice::leftBack of a registered vehicle.
leftBack(veh, tbl, lo, hi, v) ==
  LET start == vehicleRearNode(tbl, v)
      left == NodeLeft(start, lo, hi)
  IN IF left = NoNode THEN NoResult
     ELSE IF veh[left] = NoVehicle THEN backVehicle(veh, lo, hi, left)
     ELSE <<veh[left],
            NodeDistance(start, lo) - NodeDistance(vehicleHeadNode(tbl, veh[left]), lo)>>

\* TrafficLattice::rightFront of a registered vehicle.
rightFront(veh, tbl, lo, hi, v) ==
  LET start == vehicleHeadNode(tbl, v)
      right == NodeRight(start, lo, hi)
  IN IF right = NoNode THEN NoResult
     ELSE IF veh[right] = NoVehicle THEN frontVehicle(veh, lo, hi, right)
     ELSE <<veh[right],
            NodeDistance(vehicleRearNode(tbl, veh[right]), lo) - NodeDistance(start, lo)>>

\* TrafficLattice::rightBack of a registered vehicle.
rightBack(veh, tbl, lo, hi, v) ==
  LET start == vehicleRearNode(tbl, v)
      right == NodeRight(start, lo, hi)
  IN IF right = NoNode THEN NoResult
     ELSE IF veh[right] = NoVehicle THEN backVehicle(veh, lo, hi, right)
     ELSE <<veh[right],
            NodeDistance(start, lo) - NodeDistance(vehicleHeadNode(tbl, veh[right]), lo)>>

\* The loop of lines 391-405 of isChangingLane: `steps` times front() from the
\* rear node; NoNode when a front node is missing on the way.
RECURSIVE StepsForward(_, _, _, _)
StepsForward(n, steps, lo, hi) ==
  IF steps = 0 \/ n = NoNode THEN n
  ELSE StepsForward(NodeFront(n, lo, hi), steps - 1, lo, hi)

\* TrafficLattice::isChangingLane of a registered vehicle: the value returned,
\* or the error thrown.
isChangingLane(tbl, lo, hi, v) ==
  LET rear_node == vehicleRearNode(tbl, v)
      head_node == vehicleHeadNode(tbl, v)
      length == Len(tbl[v])
      front_node == StepsForward(rear_node, length, lo, hi)
  IN IF front_node = NoNode THEN [ret |-> 0, err |-> "no-front-node"]
     ELSE IF front_node = head_node THEN [ret |-> 0, err |-> ""]
     ELSE IF NodeLeft(front_node, lo, hi) /= NoNode /\ NodeLeft(front_node, lo, hi) = head_node
     THEN [ret |-> -1, err |-> ""]
     ELSE IF NodeRight(front_node, lo, hi) /= NoNode /\ NodeRight(front_node, lo, hi) = head_node
     THEN [ret |-> 1, err |-> ""]
     ELSE [ret |-> 0, err |-> "topology-mismatch"]

\* ------------------------------------------------- lane-change connection
\* What the planner's surroundings answer during one connection attempt:
\* whether the target node exists, whether it is at least 20 m ahead of the
\* station, the lateral offset of the ego from the lane centre (in 0.1 m,
\* positive to the right), whether a path can be built, and how the
\* simulation ends.
NoEnv == [target |-> FALSE, far |-> FALSE, offset |-> 0, path |-> FALSE, sim |-> "none"]
Envs ==
  {NoEnv, [NoEnv EXCEPT !.target = TRUE]}
  \cup {[target |-> TRUE, far |-> FALSE, offset |-> 0, path |-> TRUE, sim |-> "ok"]}
  \cup {[target |-> TRUE, far |-> TRUE, offset |-> o, path |-> FALSE, sim |-> "none"] :
          o \in {-6, 0, 5, 6}}
  \cup {[target |-> TRUE, far |-> TRUE, offset |-> o, path |-> TRUE, sim |-> m] :
          o \in {-6, 0, 5, 6}, m \in {"ok", "collision", "error"}}

\* The outcome of a connection attempt: whether a station is returned, whether
\* child and parent links were set, whether the simulator was run.
NoStation(simulated) == [station |-> FALSE, linked |-> FALSE, simulated |-> simulated]

\* Lines 591-644 (and 683-736): path, simulation, child station and links.
ConnectBySimulation(env) ==
  IF ~env.path THEN NoStation(FALSE)
  ELSE IF env.sim /= "ok" THEN NoStation(TRUE)
  ELSE [station |-> TRUE, linked |-> TRUE, simulated |-> TRUE]

\* connectStationToLeftFrontNode without the test of the distance of the
\* target node.
connectStationToLeftFrontNodeAnyDistance(veh, tbl, lo, hi, ego, env) ==
  IF ~env.target THEN NoStation(FALSE)
  ELSE IF env.offset > 5 THEN NoStation(FALSE)
  ELSE LET left_front == leftFront(veh, tbl, lo, hi, ego)
           left_back == leftBack(veh, tbl, lo, hi, ego)
       IN IF left_front /= NoResult /\ left_front[2] <= 0 THEN NoStation(FALSE)
          ELSE IF left_back /= NoResult /\ left_back[2] <= 0 THEN NoStation(FALSE)
          ELSE ConnectBySimulation(env)

\* connectStationToLeftFrontNode without the test of the left back vehicle.
connectStationToLeftFrontNodeFrontOnly(veh, tbl, lo, hi, ego, env) ==
  IF ~env.target THEN NoStation(FALSE)
  ELSE IF ~env.far THEN NoStation(FALSE)
  ELSE IF env.offset > 5 THEN NoStation(FALSE)
  ELSE LET left_front == leftFront(veh, tbl, lo, hi, ego)
       IN IF left_front /= NoResult /\ left_front[2] <= 0 THEN NoStation(FALSE)
          ELSE ConnectBySimulation(env)

\* IDMLatticePlanner::connectStationToLeftFrontNode from a station whose
\* snapshot holds the traffic lattice (veh, tbl, lo, hi) with the ego on it.
connectStationToLeftFrontNode(veh, tbl, lo, hi, ego, env) ==
  IF ~env.target THEN NoStation(FALSE)
  ELSE IF ~env.far THEN NoStation(FALSE)
  ELSE IF env.offset > 5 THEN NoStation(FALSE)
  ELSE LET left_front == leftFront(veh, tbl, lo, hi, ego)
           left_back == leftBack(veh, tbl, lo, hi, ego)
       IN IF left_front /= NoResult /\ left_front[2] <= 0 THEN NoStation(FALSE)
          ELSE IF left_back /= NoResult /\ left_back[2] <= 0 THEN NoStation(FALSE)
          ELSE ConnectBySimulation(env)

\* IDMLatticePlanner::connectStationToRightFrontNode.
connectStationToRightFrontNode(veh, tbl, lo, hi, ego, env) ==
  IF ~env.target THEN NoStation(FALSE)
  ELSE IF ~env.far THEN NoStation(FALSE)
  ELSE IF env.offset < -5 THEN NoStation(FALSE)
  ELSE LET right_front == rightFront(veh, tbl, lo, hi, ego)
           right_back == rightBack(veh, tbl, lo, hi, ego)
       IN IF right_front /= NoResult /\ right_front[2] <= 0 THEN NoStation(FALSE)
          ELSE IF right_back /= NoResult /\ right_back[2] <= 0 THEN NoStation(FALSE)
          ELSE ConnectBySimulation(env)

\* ---------------------------------------------------------------- Station
\* A parent of a station is the tuple <<snapshot, cost-to-come, parent station>>
\* held in a boost::optional; NoParent is the empty optional.
MaxCost == 2
Costs == 0..MaxCost
Snapshots == {1, 2}
ParentStations == {1, 2}
NoParent == << >>
Parents == Snapshots \X Costs \X ParentStations

\* A station without parents (its snapshot is the one it was constructed with).
NewStation ==
  [left_parent_ |-> NoParent, back_parent_ |-> NoParent, right_parent_ |-> NoParent,
   optimal_parent_ |-> NoParent, snapshot_ |-> 0]

\* Station::hasParent and Station::costToCome.
hasParent(st) == st.optimal_parent_ /= NoParent
costToCome(st) == st.optimal_parent_[2]

\* Lines 76-85: an unset optimal parent starts as any existing parent.
AnyParent(st) ==
  IF st.optimal_parent_ /= NoParent THEN st.optimal_parent_
  ELSE IF st.left_parent_ /= NoParent THEN st.left_parent_
  ELSE IF st.back_parent_ /= NoParent THEN st.back_parent_
  ELSE st.right_parent_

\* Lines 89-94: one comparison of a parent slot with the optimal parent so far.
Better(parent, optimal) ==
  IF parent /= NoParent /\ parent[2] <= optimal[2] THEN parent ELSE optimal

\* Station::updateOptimalParent (called with at least one parent stored).
updateOptimalParent(st) ==
  LET opt == Better(st.back_parent_,
               Better(st.right_parent_,
                 Better(st.left_parent_, AnyParent(st))))
  IN [st EXCEPT !.optimal_parent_ = opt, !.snapshot_ = opt[1]]

\* Station::updateLeftParent, updateBackParent, updateRightParent.
updateLeftParent(st, snapshot, cost_to_come, parent_station) ==
  updateOptimalParent([st EXCEPT !.left_parent_ = <<snapshot, cost_to_come, parent_station>>])
updateBackParent(st, snapshot, cost_to_come, parent_station) ==
  updateOptimalParent([st EXCEPT !.back_parent_ = <<snapshot, cost_to_come, parent_station>>])
updateRightParent(st, snapshot, cost_to_come, parent_station) ==
  updateOptimalParent([st EXCEPT !.right_parent_ = <<snapshot, cost_to_come, parent_station>>])

\* ------------------------------------------------------ IDM lattice planner
\* Planner distances are in 0.1 m along the road.  A node of the planner's
\* waypoint lattice is <<lane, position>>, which is also its id; the lattice
\* holds the nodes of the positions start..start+range of every lane and the
\* distance of a node is its position minus start.
Metre == 10
SpatialHorizonMetres == 100
spatial_horizon_ == SpatialHorizonMetres * Metre

NoLattice == << >>

\* Lines 327-328: the lattice created around the ego's waypoint.
NewWaypointLattice(ego_waypoint) ==
  [start |-> ego_waypoint[2], range |-> spatial_horizon_ + 30 * Metre]

\* The road the planner drives on has a third lane to the right of the two
\* lanes the ego is put on, so that a node of lane 2 has a neighbour on either
\* side.
WaypointLanes == {1, 2, 3}
InLattice(wl, n) ==
  n[1] \in WaypointLanes /\ n[2] >= wl.start /\ n[2] <= wl.start + wl.range
WaypointClosestNode(wl, w) == IF InLattice(wl, w) THEN w ELSE NoNode
WaypointDistance(wl, n) == n[2] - wl.start
WaypointFront(wl, n, d) ==
  IF InLattice(wl, <<n[1], n[2] + d>>) THEN <<n[1], n[2] + d>> ELSE NoNode
WaypointFrontLeft(wl, n, d) ==
  IF InLattice(wl, <<n[1] - 1, n[2] + d>>) THEN <<n[1] - 1, n[2] + d>> ELSE NoNode
WaypointFrontRight(wl, n, d) ==
  IF InLattice(wl, <<n[1] + 1, n[2] + d>>) THEN <<n[1] + 1, n[2] + d>> ELSE NoNode
\* WaypointLattice::shift: the root advances by d, the range is kept.
WaypointShift(wl, d) == [wl EXCEPT !.start = @ + d]

\* A snapshot: the ego's id, the waypoint of its location, its speed and
\* policy speed (m/s), and whether an agent drives alongside it in the other
\* of the lanes 1 and 2.  SnapshotTraffic is the traffic lattice of such a snapshot.
PolicySpeed == 10
PlannerSnapshot(ego, node, speed, beside) ==
  [ego |-> ego, node |-> node, speed |-> speed, policy |-> PolicySpeed, beside |-> beside]

SnapshotTraffic(snapshot) ==
  LET ego_node == <<snapshot.node[1], 1>>
      agent == CHOOSE v \in VehicleIds : v /= snapshot.ego
      agent_node == <<CHOOSE l \in Lanes : l /= snapshot.node[1], 1>>
  IN [veh |-> [n \in RoadNodes |->
                 IF n = ego_node THEN snapshot.ego
                 ELSE IF snapshot.beside /\ n = agent_node THEN agent
                 ELSE NoVehicle],
      tbl |-> IF snapshot.beside
              THEN (snapshot.ego :> <<ego_node>>) @@ (agent :> <<agent_node>>)
              ELSE (snapshot.ego :> <<ego_node>>),
      lo |-> 0, hi |-> RoadLen]

\* What path synthesis and the traffic simulator answer, as a function of the
\* direction of the connection: how a connection ends ("ok", "nopath",
\* "collision", "error"), how far the ego gets within the 5 s of a simulation
\* (cover) and the stage cost of the simulation.
Dirs == {"front", "left", "right"}

\* IDMTrafficSimulator::simulate from a snapshot along the path to the target
\* node: the ego stops at the target, or where the 5 s end; a lane change left
\* before its half ends in the lane it started from.
Simulate(w, snapshot, target_node, dir) ==
  LET length == target_node[2] - snapshot.node[2]
      reached == w.cover[dir] >= length
      lane == IF reached \/ 2 * w.cover[dir] >= length THEN target_node[1]
              ELSE snapshot.node[1]
      position == IF reached THEN target_node[2] ELSE snapshot.node[2] + w.cover[dir]
  IN [snapshot |-> PlannerSnapshot(snapshot.ego, <<lane, position>>,
                                   w.cover[dir] \div (5 * Metre), FALSE),
      stage_cost |-> w.cost[dir]]

\* The answers of the surroundings to one connection attempt (see NoEnv).
EnvOf(w, wl, st, target_node, dir) ==
  [target |-> target_node /= NoNode,
   far |-> target_node /= NoNode
           /\ ~(WaypointDistance(wl, target_node) - WaypointDistance(wl, st.id) < 20 * Metre),
   offset |-> 0,
   path |-> target_node /= NoNode /\ w.sim[dir] /= "nopath",
   sim |-> IF target_node = NoNode \/ w.sim[dir] = "nopath" THEN "none" ELSE w.sim[dir]]

\* A child link is the tuple <<path, stage cost, child station>>; a path is
\* <<start node, target node, lane change type>>.  Stations are objects: a
\* station is designated by its index in the sequence of the stations made so
\* far (0 is a null pointer), and it is alive while the table holds it.
NoChild == << >>
NullStation == 0

\* Station::Station(snapshot, waypoint_lattice, fast_map).
StationAt(snapshot) ==
  [id |-> snapshot.node, snapshot_ |-> snapshot,
   left_parent_ |-> NoParent, back_parent_ |-> NoParent, right_parent_ |-> NoParent,
   optimal_parent_ |-> NoParent,
   front_child_ |-> NoChild, left_child_ |-> NoChild, right_child_ |-> NoChild]

hasChild(st) ==
  st.front_child_ /= NoChild \/ st.left_child_ /= NoChild \/ st.right_child_ /= NoChild

\* node_to_station_table_ is the sequence of its entries <<id, station>> in
\* the order the keys were inserted.
TableCount(table, id) == \E i \in 1..Len(table) : table[i][1] = id
TableAt(table, id) == table[CHOOSE i \in 1..Len(table) : table[i][1] = id][2]
TablePut(table, id, obj) ==
  IF TableCount(table, id)
  THEN [i \in 1..Len(table) |-> IF table[i][1] = id THEN <<id, obj>> ELSE table[i]]
  ELSE Append(table, <<id, obj>>)
Alive(table, obj) == \E i \in 1..Len(table) : table[i][2] = obj

\* Lines 531-552, 623-644, 715-736: the child station is the one the table
\* holds for the node the simulated ego stands on, or else a new one; the child
\* link of the station and the parent of the child are set.
LinkChild(g, s, dir, path, sim) ==
  LET id == sim.snapshot.node
      known == TableCount(g.table, id)
      next_station == IF known THEN TableAt(g.table, id) ELSE Len(g.stations) + 1
      made == IF known THEN g.stations ELSE Append(g.stations, StationAt(sim.snapshot))
      child == <<path, sim.stage_cost, next_station>>
      linked == [made EXCEPT ![s] =
                   IF dir = "front" THEN [@ EXCEPT !.front_child_ = child]
                   ELSE IF dir = "left" THEN [@ EXCEPT !.left_child_ = child]
                   ELSE [@ EXCEPT !.right_child_ = child]]
      cost_to_come == IF hasParent(linked[s]) THEN costToCome(linked[s]) + sim.stage_cost
                      ELSE sim.stage_cost
      parented == [linked EXCEPT ![next_station] =
                     IF dir = "front" THEN updateBackParent(@, sim.snapshot, cost_to_come, s)
                     ELSE IF dir = "left" THEN updateRightParent(@, sim.snapshot, cost_to_come, s)
                     ELSE updateLeftParent(@, sim.snapshot, cost_to_come, s)]
  IN [g |-> [g EXCEPT !.stations = parented], station |-> next_station]

\* IDMLatticePlanner::connectStationToFrontNode.
connectStationToFrontNode(env) ==
  IF ~env.target THEN NoStation(FALSE) ELSE ConnectBySimulation(env)

\* The three connections as the planner makes them from station s of the
\* graph g: the decision, then the links.
ConnectFront(g, s, target_node) ==
  LET st == g.stations[s]
      out == connectStationToFrontNode(EnvOf(g.world, g.lattice, st, target_node, "front"))
  IN IF ~out.station THEN [g |-> g, station |-> NullStation]
     ELSE LinkChild(g, s, "front", <<st.snapshot_.node, target_node, "KeepLane">>,
                    Simulate(g.world, st.snapshot_, target_node, "front"))

ConnectLeftFront(g, s, target_node) ==
  LET st == g.stations[s]
      traffic == SnapshotTraffic(st.snapshot_)
      out == connectStationToLeftFrontNode(
               traffic.veh, traffic.tbl, traffic.lo, traffic.hi, st.snapshot_.ego,
               EnvOf(g.world, g.lattice, st, target_node, "left"))
  IN IF ~out.station THEN [g |-> g, station |-> NullStation]
     ELSE LinkChild(g, s, "left", <<st.snapshot_.node, target_node, "LeftLaneChange">>,
                    Simulate(g.world, st.snapshot_, target_node, "left"))

ConnectRightFront(g, s, target_node) ==
  LET st == g.stations[s]
      traffic == SnapshotTraffic(st.snapshot_)
      out == connectStationToRightFrontNode(
               traffic.veh, traffic.tbl, traffic.lo, traffic.hi, st.snapshot_.ego,
               EnvOf(g.world, g.lattice, st, target_node, "right"))
  IN IF ~out.station THEN [g |-> g, station |-> NullStation]
     ELSE LinkChild(g, s, "right", <<st.snapshot_.node, target_node, "RightLaneChange">>,
                    Simulate(g.world, st.snapshot_, target_node, "right"))

\* The planner: its waypoint lattice, the stations made in the current tick,
\* node_to_station_table_, and the weak pointers root_ and
\* cached_next_station_ (ExpiredStation: the station pointed to was destroyed).
ExpiredStation == 0 - 1
NewPlanner ==
  [waypoint_lattice_ |-> NoLattice, stations |-> << >>, node_to_station_table_ |-> << >>,
   root_ |-> NullStation, cached_next_station_ |-> NullStation]

\* weak_ptr::lock gives a station only while the table owns it.
Locks(p, stn) == stn > 0 /\ Alive(p.node_to_station_table_, stn)

\* immediateNextStationReached that counts a gap of exactly 0.5 m as reached.
immediateNextStationReachedAtHalf(ego_distance, target_distance) ==
  target_distance - ego_distance <= Metre \div 2

\* Line 312, on the two distances.
immediateNextStationReached(ego_distance, target_distance) ==
  target_distance - ego_distance < Metre \div 2

\* Lines 302-308: the ego's node and the cached next station's node must exist
\* for the distances to be read.
ReachedDefined(p, snapshot) ==
  /\ WaypointClosestNode(p.waypoint_lattice_, snapshot.node) /= NoNode
  /\ Locks(p, p.cached_next_station_)
  /\ InLattice(p.waypoint_lattice_, p.stations[p.cached_next_station_].id)

Reached(p, snapshot) ==
  immediateNextStationReached(
    WaypointDistance(p.waypoint_lattice_, WaypointClosestNode(p.waypoint_lattice_, snapshot.node)),
    WaypointDistance(p.waypoint_lattice_, p.stations[p.cached_next_station_].id))

\* updateWaypointLattice that leaves a lattice it has made where it is.
updateWaypointLatticeUnshifted(p, snapshot) ==
  IF p.waypoint_lattice_ = NoLattice
  THEN [p |-> [p EXCEPT !.waypoint_lattice_ = NewWaypointLattice(snapshot.node)],
        defined |-> TRUE]
  ELSE [p |-> p, defined |-> ReachedDefined(p, snapshot)]

\* IDMLatticePlanner::updateWaypointLattice; defined tells whether the call
\* stayed within defined behaviour.
updateWaypointLattice(p, snapshot) ==
  IF p.waypoint_lattice_ = NoLattice
  THEN [p |-> [p EXCEPT !.waypoint_lattice_ = NewWaypointLattice(snapshot.node)],
        defined |-> TRUE]
  ELSE IF ~ReachedDefined(p, snapshot) THEN [p |-> p, defined |-> FALSE]
  ELSE IF Reached(p, snapshot)
  THEN LET shift_distance ==
             WaypointDistance(p.waypoint_lattice_, snapshot.node) - 5 * Metre
       IN [p |-> [p EXCEPT !.waypoint_lattice_ = WaypointShift(@, shift_distance)],
           defined |-> shift_distance >= 0]
  ELSE [p |-> p, defined |-> TRUE]

\* The station graph while it is built: the stations, the table, the queue of
\* the stations to expand, and the lattice and the surroundings it is built in.
\* pushed and expanded are the history of the queue: the child stations pushed,
\* each with the node its connection aimed at, and the stations popped.
Graph(stations, table, queue, lattice, w) ==
  [stations |-> stations, table |-> table, queue |-> queue, lattice |-> lattice, world |-> w,
   pushed |-> << >>, expanded |-> << >>]

\* Lines 414-418 (420-424, 426-430): the station is stored under its id and is
\* queued if it stands on the node that was aimed at.
SaveToTableAndQueue(g, stn, node) ==
  IF stn = NullStation THEN g
  ELSE LET id == g.stations[stn].id
       IN [g EXCEPT !.table = TablePut(@, id, stn),
                    !.queue = IF id = node THEN Append(@, stn) ELSE @,
                    !.pushed = IF id = node THEN Append(@, <<stn, node>>) ELSE @]

\* Lines 408-430: the new root is saved in the table, then the stations the
\* three connections gave.
SaveRootAndChildren(front_station, left_station, right_out, root_node, nodes) ==
  SaveToTableAndQueue(
    SaveToTableAndQueue(
      SaveToTableAndQueue(
        [right_out.g EXCEPT !.table = TablePut(@, root_node, 1)],
        front_station, nodes.front),
      left_station, nodes.left),
    right_out.station, nodes.right)

\* Lines 405-430: the connection to the right front node, then the saving.
PruneAfterLeftFront(front_station, left_out, root_node, nodes) ==
  SaveRootAndChildren(front_station, left_out.station,
                      ConnectRightFront(left_out.g, 1, nodes.right), root_node, nodes)

\* Lines 403-430: the connection to the left front node and what follows.
PruneAfterFront(front_out, root_node, nodes) ==
  PruneAfterLeftFront(front_out.station, ConnectLeftFront(front_out.g, 1, nodes.left),
                      root_node, nodes)

\* PrunedGraph that aims at the nodes 50 m ahead of the new root, whatever the
\* distance of the cached next node.
PrunedGraphAtHorizon(wl, w, snapshot, distance_to_next_node) ==
  PruneAfterFront(
    ConnectFront(Graph(<<StationAt(snapshot)>>, << >>, << >>, wl, w), 1,
                 WaypointFront(wl, snapshot.node, 50 * Metre)),
    snapshot.node,
    [front |-> WaypointFront(wl, snapshot.node, 50 * Metre),
     left |-> WaypointFrontLeft(wl, snapshot.node, 50 * Metre),
     right |-> WaypointFrontRight(wl, snapshot.node, 50 * Metre)])

\* Lines 398-430: the graph made of the new root (station 1) and of what it
\* connects to at the distance of the cached next node.
PrunedGraph(wl, w, snapshot, distance_to_next_node) ==
  PruneAfterFront(
    ConnectFront(Graph(<<StationAt(snapshot)>>, << >>, << >>, wl, w), 1,
                 WaypointFront(wl, snapshot.node, distance_to_next_node)),
    snapshot.node,
    [front |-> WaypointFront(wl, snapshot.node, distance_to_next_node),
     left |-> WaypointFrontLeft(wl, snapshot.node, distance_to_next_node),
     right |-> WaypointFrontRight(wl, snapshot.node, distance_to_next_node)])

\* Lines 361-372: the graph of a planner without a root, or whose next station
\* is reached, is the new root alone.
FreshGraph(p, snapshot, expired) ==
  [p EXCEPT !.stations = <<StationAt(snapshot)>>,
            !.node_to_station_table_ = <<<<snapshot.node, 1>>>>,
            !.root_ = 1,
            !.cached_next_station_ = expired]

\* Lines 409-410 and the return: the pruned graph is the planner's graph.
WithPruned(p, g, expired) ==
  [p |-> [p EXCEPT !.stations = g.stations,
                   !.node_to_station_table_ = g.table,
                   !.root_ = 1,
                   !.cached_next_station_ = expired],
   queue |-> g.queue, pushed |-> g.pushed, defined |-> TRUE]

\* The state of cached_next_station_ once the stations of the previous tick
\* are destroyed with the table: a pointer that was set is left expired.
ExpiredCache(p) ==
  IF p.cached_next_station_ = NullStation THEN NullStation ELSE ExpiredStation

\* IDMLatticePlanner::pruneStationGraph on the planner p (its lattice already
\* updated).
pruneStationGraph(p, w, snapshot) ==
  IF ~Locks(p, p.root_)
  THEN [p |-> FreshGraph(p, snapshot, ExpiredCache(p)), queue |-> <<1>>, pushed |-> << >>,
        defined |-> TRUE]
  ELSE IF ~ReachedDefined(p, snapshot)
  THEN [p |-> p, queue |-> << >>, pushed |-> << >>, defined |-> FALSE]
  ELSE IF Reached(p, snapshot)
  THEN [p |-> FreshGraph(p, snapshot, ExpiredCache(p)), queue |-> <<1>>, pushed |-> << >>,
        defined |-> TRUE]
  ELSE WithPruned(
         p,
         PrunedGraph(p.waypoint_lattice_, w, snapshot,
                     WaypointDistance(p.waypoint_lattice_,
                                      p.stations[p.cached_next_station_].id)
                     - WaypointDistance(p.waypoint_lattice_, snapshot.node)),
         ExpiredCache(p))

\* addStationToTableAndQueue that queues every station it stores.
addStationToTableAndQueueUntested(g, stn, node) ==
  IF stn = NullStation \/ node = NoNode THEN g
  ELSE LET id == g.stations[stn].id
       IN IF ~TableCount(g.table, id)
          THEN [g EXCEPT !.table = Append(@, <<id, stn>>),
                         !.queue = Append(@, stn),
                         !.pushed = Append(@, <<stn, node>>)]
          ELSE g

\* Lines 440-449.
addStationToTableAndQueue(g, stn, node) ==
  IF stn = NullStation \/ node = NoNode THEN g
  ELSE LET id == g.stations[stn].id
       IN IF ~TableCount(g.table, id)
          THEN [g EXCEPT !.table = Append(@, <<id, stn>>),
                         !.queue = IF id = node THEN Append(@, stn) ELSE @,
                         !.pushed = IF id = node THEN Append(@, <<stn, node>>) ELSE @]
          ELSE g

\* Lines 455-459, 463-467, 471-475: the station a connection gave is added
\* for the node the connection aimed at.
AddConnected(out, node) == addStationToTableAndQueue(out.g, out.station, node)

\* Lines 453-459: towards the node 50 m ahead.
ExpandFront(g, stn) ==
  AddConnected(ConnectFront(g, stn, WaypointFront(g.lattice, g.stations[stn].id, 50 * Metre)),
               WaypointFront(g.lattice, g.stations[stn].id, 50 * Metre))

\* Lines 461-467: towards the node 50 m ahead on the left.
ExpandLeftFront(g, stn) ==
  AddConnected(ConnectLeftFront(g, stn, WaypointFrontLeft(g.lattice, g.stations[stn].id, 50 * Metre)),
               WaypointFrontLeft(g.lattice, g.stations[stn].id, 50 * Metre))

\* Lines 469-475: towards the node 50 m ahead on the right.
ExpandRightFront(g, stn) ==
  AddConnected(ConnectRightFront(g, stn, WaypointFrontRight(g.lattice, g.stations[stn].id, 50 * Metre)),
               WaypointFrontRight(g.lattice, g.stations[stn].id, 50 * Metre))

\* Lines 452-477: one station is expanded towards the three nodes 50 m ahead.
ExpandStation(g, stn) == ExpandRightFront(ExpandLeftFront(ExpandFront(g, stn), stn), stn)

\* IDMLatticePlanner::constructStationGraph.
RECURSIVE constructStationGraph(_)
constructStationGraph(g) ==
  IF g.queue = << >> THEN g
  ELSE constructStationGraph(
         ExpandStation([g EXCEPT !.queue = Tail(@), !.expanded = Append(@, Head(g.queue))],
                       Head(g.queue)))

\* IDMLatticePlanner::terminalSpeedCost on the ego speed and policy speed of
\* the terminal's snapshot.
SpeedCostMap == <<4, 4, 4, 3, 3, 2, 2, 1, 1, 0>>
terminalSpeedCost(ego_speed, ego_policy_speed) ==
  IF ego_speed >= ego_policy_speed THEN 0
  ELSE SpeedCostMap[(ego_speed * 10) \div ego_policy_speed + 1]

\* Lines 799-805: the first child of the root, front before left before right.
RootChild(root) ==
  IF root.front_child_ /= NoChild THEN root.front_child_[3]
  ELSE IF root.left_child_ /= NoChild THEN root.left_child_[3]
  ELSE IF root.right_child_ /= NoChild THEN root.right_child_[3]
  ELSE NullStation

\* IDMLatticePlanner::terminalDistanceCost on the distances of the root, of
\* the root's first child and of the terminal.
DistanceCostMap == <<20, 20, 20, 20, 20, 20, 20, 20, 10, 5>>
terminalDistanceCost(root_distance, root_child_distance, station_distance) ==
  LET spatial_horizon == spatial_horizon_ - 50 * Metre + root_child_distance - root_distance
      distance == station_distance - root_distance
  IN IF distance >= spatial_horizon THEN 0
     ELSE DistanceCostMap[(distance * 10) \div spatial_horizon + 1]

\* IDMLatticePlanner::costFromRootToTerminal of the station held by p.
costFromRootToTerminal(p, terminal) ==
  LET wl == p.waypoint_lattice_
      st == p.stations[terminal]
      root == p.stations[p.root_]
  IN costToCome(st)
     + terminalSpeedCost(st.snapshot_.speed, st.snapshot_.policy)
     + terminalDistanceCost(WaypointDistance(wl, root.id),
                            WaypointDistance(wl, p.stations[RootChild(root)].id),
                            WaypointDistance(wl, st.id))

\* What costFromRootToTerminal reads without a test: the optimal parent of the
\* terminal, the root, and the root's first child.
CostDefined(p, terminal) ==
  /\ hasParent(p.stations[terminal])
  /\ Locks(p, p.root_)
  /\ Locks(p, RootChild(p.stations[p.root_]))

Terminals(p) ==
  {p.node_to_station_table_[i][2] : i \in 1..Len(p.node_to_station_table_)}
    \ {s \in 1..Len(p.stations) : hasChild(p.stations[s])}

\* Lines 854-870: the table is gone through and a terminal replaces the optimal
\* one only at a strictly smaller cost (the start value 1.0e10 is above every
\* cost), so the loop ends with the first terminal of lowest cost in the order
\* of the iteration.  The table is an unordered_map, whose order of iteration
\* is not specified: every terminal of lowest cost is one the loop can end
\* with.
OptimalTerminal(p) ==
  LET station_cost == [t \in Terminals(p) |-> costFromRootToTerminal(p, t)]
  IN {t \in Terminals(p) : \A other \in Terminals(p) : station_cost[t] <= station_cost[other]}

\* Lines 887-898: the id of a child, read through its weak pointer.
ChildId(p, child) == IF child = NoChild THEN NoNode ELSE p.stations[child[3]].id
ChildLocks(p, child) == child = NoChild \/ Locks(p, child[3])

\* Lines 904-946: from the optimal terminal back to the root along the optimal
\* parents.  The loop has no exit when no child of the parent carries the
\* station's id, or when the chain of optimal parents returns to a station it
\* has passed.
RECURSIVE TraceBack(_, _, _, _, _)
TraceBack(p, stn, path_sequence, station_sequence, passed) ==
  LET st == p.stations[stn]
  IN IF ~hasParent(st)
     THEN [kind |-> "path", err |-> "", path |-> path_sequence, stations |-> station_sequence]
     ELSE IF stn \in passed
     THEN [kind |-> "diverges", err |-> "", path |-> << >>, stations |-> << >>]
     ELSE
       LET parent_station == st.optimal_parent_[3]
           parent == p.stations[parent_station]
           sequence == <<parent_station>> \o station_sequence
       IN IF ~Locks(p, parent_station)
          THEN [kind |-> "error", err |-> "no-parent", path |-> << >>, stations |-> << >>]
          ELSE IF ~ChildLocks(p, parent.front_child_)
          THEN [kind |-> "undefined", err |-> "", path |-> << >>, stations |-> << >>]
          ELSE IF parent.front_child_ /= NoChild /\ ChildId(p, parent.front_child_) = st.id
          THEN TraceBack(p, parent_station, <<parent.front_child_[1]>> \o path_sequence,
                         sequence, passed \cup {stn})
          ELSE IF ~ChildLocks(p, parent.left_child_)
          THEN [kind |-> "undefined", err |-> "", path |-> << >>, stations |-> << >>]
          ELSE IF parent.left_child_ /= NoChild /\ ChildId(p, parent.left_child_) = st.id
          THEN TraceBack(p, parent_station, <<parent.left_child_[1]>> \o path_sequence,
                         sequence, passed \cup {stn})
          ELSE IF ~ChildLocks(p, parent.right_child_)
          THEN [kind |-> "undefined", err |-> "", path |-> << >>, stations |-> << >>]
          ELSE IF parent.right_child_ /= NoChild /\ ChildId(p, parent.right_child_) = st.id
          THEN TraceBack(p, parent_station, <<parent.right_child_[1]>> \o path_sequence,
                         sequence, passed \cup {stn})
          ELSE [kind |-> "diverges", err |-> "", path |-> << >>, stations |-> << >>]

\* IDMLatticePlanner::selectOptimalPath: what the call can give, one outcome
\* for every station the loop of lines 854-870 can end with.
selectOptimalPath(p) ==
  IF Terminals(p) = {}
  THEN {[kind |-> "error", err |-> "no-terminal", path |-> << >>, stations |-> << >>]}
  ELSE IF \E t \in Terminals(p) : ~CostDefined(p, t)
  THEN {[kind |-> "undefined", err |-> "", path |-> << >>, stations |-> << >>]}
  ELSE {TraceBack(p, optimal_station, << >>, <<optimal_station>>, {}) :
          optimal_station \in OptimalTerminal(p)}

\* IDMLatticePlanner::planPath: the planner after the call and what the call
\* gives: a path, an error, behaviour that is not defined, or no return.  The
\* steps of planPath below give the set of the outcomes the call can have.
Outcome(p, out) == [p |-> p, kind |-> out.kind, err |-> out.err, path |-> out.path]
Failure(p, kind, err) == [p |-> p, kind |-> kind, err |-> err, path |-> << >>]

\* Lines 287-290: the second station of the selected sequence is cached and
\* the path returned.
CacheNextStation(built, selected) ==
  IF selected.kind /= "path" THEN Outcome(built, selected)
  ELSE Outcome([built EXCEPT !.cached_next_station_ = selected.stations[2]], selected)

\* Lines 279-290: the optimal path is selected on the constructed graph.
PlanOnGraph(built) ==
  {CacheNextStation(built, selected) : selected \in selectOptimalPath(built)}

\* Line 277: the graph constructed from the queue is the planner's graph.
WithGraph(p, g) == [p EXCEPT !.stations = g.stations, !.node_to_station_table_ = g.table]

\* Lines 259-290: planPath once the graph has been pruned.
PlanOnPruned(pruned, w) ==
  IF ~pruned.defined THEN {Failure(pruned.p, "undefined", "")}
  ELSE IF pruned.queue = << >> THEN {Failure(pruned.p, "error", "no-next-node")}
  ELSE PlanOnGraph(
         WithGraph(pruned.p,
                   constructStationGraph(
                     Graph(pruned.p.stations, pruned.p.node_to_station_table_,
                           pruned.queue, pruned.p.waypoint_lattice_, w))))

\* Lines 256-290: planPath once the waypoint lattice has been updated.
PlanOnLattice(updated, w, snapshot) ==
  IF ~updated.defined THEN {Failure(updated.p, "undefined", "")}
  ELSE PlanOnPruned(pruneStationGraph(updated.p, w, snapshot), w)

\* Lines 253-290: planPath once the ego has been checked.
PlanForEgo(p, w, snapshot) ==
  PlanOnLattice(updateWaypointLattice(p, snapshot), w, snapshot)

\* planPath that plans for whichever vehicle it is called with.
planPathForAnyVehicle(p, w, ego, snapshot) == PlanForEgo(p, w, snapshot)

planPath(p, w, ego, snapshot) ==
  IF ego /= snapshot.ego THEN {Failure(p, "error", "wrong-ego")}
  ELSE PlanForEgo(p, w, snapshot)

\* ------------------------------------------------------------ construction
\* The lattice a construction that threw leaves: none.
NoTrafficLattice == [veh |-> << >>, tbl |-> << >>, lo |-> 0, hi |-> 0, removed |-> {}]

\* The longitudinal resolution the constructor hands to baseConstructor (1.0 m,
\* the unit of the positions).
longitudinal_resolution_ == 1

\* baseConstructor that refuses only a range below the resolution.
baseConstructorBelowResolution(start, range) ==
  IF range < longitudinal_resolution_
  THEN [err |-> "invalid-range", lo |-> 0, hi |-> 0, nodes |-> 0]
  ELSE [err |-> "", lo |-> start[2], hi |-> extend(start[2], start[2], range),
        nodes |-> Cardinality(Lanes) * (extend(start[2], start[2], range) - start[2] + 1)]

\* TrafficLattice::baseConstructor(start, range, longitudinal_resolution,
\* router): the positions of the first and the last node of every lane, and
\* the number of nodes created.
baseConstructor(start, range) ==
  IF range <= longitudinal_resolution_
  THEN [err |-> "invalid-range", lo |-> 0, hi |-> 0, nodes |-> 0]
  ELSE [err |-> "", lo |-> start[2], hi |-> extend(start[2], start[2], range),
        nodes |-> Cardinality(Lanes) * (extend(start[2], start[2], range) - start[2] + 1)]

\* Lines 51-77: the constructor throws when registerVehicles reports a
\* collision, and else hands out the ids that were not registered.
ConstructedWith(lattice, r) ==
  IF ~r.valid THEN [err |-> "collision", nodes |-> lattice.nodes] @@ NoTrafficLattice
  ELSE [err |-> "", nodes |-> lattice.nodes, veh |-> r.veh, tbl |-> r.tbl,
        lo |-> lattice.lo, hi |-> lattice.hi, removed |-> r.removed]

\* Lines 49-77: the vehicles are registered on the lattice baseConstructor made.
RegisterOnLattice(lattice, order, wps) ==
  IF lattice.err /= "" THEN [err |-> lattice.err, nodes |-> lattice.nodes] @@ NoTrafficLattice
  ELSE ConstructedWith(lattice,
                   registerVehicles([n \in RoadNodes |-> NoVehicle], lattice.lo, lattice.hi,
                                    order, wps))

\* The lattice start and range of the input vehicles, handed to baseConstructor.
LatticeFor(sr) ==
  IF ~sr.defined THEN [err |-> "undefined", lo |-> 0, hi |-> 0, nodes |-> 0]
  ELSE IF sr.err /= "" THEN [err |-> sr.err, lo |-> 0, hi |-> 0, nodes |-> 0]
  ELSE Only({baseConstructor(start, sr.range) : start \in sr.starts})

\* TrafficLattice::TrafficLattice(vehicles, map, fast_map, router,
\* disappear_vehicles); order is the sequence of the ids of the input vector,
\* wps the waypoints of each (vehicleWaypoints).
TrafficLattice(order, wps) ==
  RegisterOnLattice(LatticeFor(latticeStartAndRange(Range(order), wps)), order, wps)

\* ------------------------------------------------- spatiotemporal planner
\* Speeds are integers in units of 0.0001 m/s.
\* Vertex::kSpeedIntervalsPerStation_: the intervals [0, 13.4112),
\* [13.4112, 26.8224) and [26.8224, 40.2336), indexed from 0 as in the code.
kSpeedIntervalsPerStation_ ==
  [i \in 0..2 |-> <<i * 134112, (i + 1) * 134112>>]
\* boost::none as the answer of speedIntervalIdx.
NoInterval == 0 - 1

\* The loop of speedIntervalIdx from interval i on: the first interval whose
\* upper end is not below the speed ...
RECURSIVE FirstIntervalUpTo(_, _)
FirstIntervalUpTo(speed, i) ==
  IF i > 2 THEN NoInterval
  ELSE IF speed <= kSpeedIntervalsPerStation_[i][2] THEN i
  ELSE FirstIntervalUpTo(speed, i + 1)
\* ... and speedIntervalIdx with right-closed intervals.
speedIntervalIdxRightClosed(speed) ==
  IF speed < 0 THEN NoInterval ELSE FirstIntervalUpTo(speed, 0)

\* The loop of lines 320-322 from interval i on: the first interval whose upper
\* end exceeds the speed.
RECURSIVE FirstIntervalAbove(_, _)
FirstIntervalAbove(speed, i) ==
  IF i > 2 THEN NoInterval
  ELSE IF speed < kSpeedIntervalsPerStation_[i][2] THEN i
  ELSE FirstIntervalAbove(speed, i + 1)
\* Vertex::speedIntervalIdx(speed).
speedIntervalIdx(speed) ==
  IF speed < 0 THEN NoInterval ELSE FirstIntervalAbove(speed, 0)

\* A vertex is its node id and the ego speed of its snapshot (Vertex::node(),
\* Vertex::speed()); NullVertex is an empty slot of the table.
NullVertex == [node |-> 0, speed |-> 0 - 1]
Vertex(node_id, speed) == [node |-> node_id, speed |-> speed]
\* The table before any vertex is added; a node without an entry is a node
\* whose three slots are empty.
VertexNodeIds == 1..2
NoVertices == [n \in VertexNodeIds |-> [i \in 0..2 |-> NullVertex]]

\* What the construction of the error message of addVertexToTable can do.  It
\* hands two string literals to std::string as an iterator range (the comma of
\* line 530), which is undefined: where the second literal lies behind the
\* first the message holds the bytes between them and the runtime_error of
\* line 533 is thrown; where it lies before, std::string throws
\* std::length_error; reading across the literals may also end the process.
ErrorMessageOutcomes == {"invalid-speed", "length-error", "terminated"}

\* SpatiotemporalLatticePlanner::addVertexToTable(vertex), the error being one
\* of ErrorMessageOutcomes when the speed has no interval.
addVertexToTable(table, vertex, error) ==
  LET idx == speedIntervalIdx(vertex.speed)
  IN IF idx = NoInterval THEN [table |-> table, err |-> error]
     ELSE [table |-> [table EXCEPT ![vertex.node][idx] = vertex], err |-> ""]

\* ------------------------------------------------------ traffic simulators
\* What a simulator holds (w): the stored acceleration of every vehicle of its
\* snapshot, the id of the ego, and the answers of the car-following model
\* idm_ on a free road (lines 34-35, 64-65) and behind a lead (lines 29-32,
\* 59-62).  The snapshot's traffic lattice is veh, tbl, lo, hi.
CarFollowing(w, lead) == IF lead /= NoResult THEN w.idm.following ELSE w.idm.free

\* IDMTrafficSimulator::egoAcceleration.
IDMEgoAcceleration(w, veh, tbl, lo, hi) == CarFollowing(w, front(veh, tbl, lo, hi, w.ego))

\* IDMTrafficSimulator::agentAcceleration.
IDMAgentAcceleration(w, veh, tbl, lo, hi, agent) ==
  CarFollowing(w, front(veh, tbl, lo, hi, agent))

\* ConstAccelTrafficSimulator::egoAcceleration.
ConstAccelEgoAcceleration(w) == w.acceleration[w.ego]

\* ConstAccelTrafficSimulator::agentAcceleration.
ConstAccelAgentAcceleration(w, agent) == w.acceleration[agent]

\* ----------------------------------------------------------------- inputs
\* The waypoints <<rear, mid, head>> of a vehicle: the mid waypoint lies e
\* positions ahead of the rear and the head e ahead of the mid (e the half
\* length of the bounding box); rear, mid and head are collinear, so either the
\* rear or the head shares the lane of the mid and the other is on that lane or
\* on a neighbour lane.  A vehicle leaving the route has its head off route.
OnRoadWaypoints ==
  {<<<<lr, p>>, <<lm, p + e>>, <<lh, p + 2 * e>>>> :
     <<lr, lm, lh, p, e>> \in
       {t \in Lanes \X Lanes \X Lanes \X Positions \X (0..MaxExtent) :
          /\ t[4] + 2 * t[5] <= RoadLen
          /\ \/ t[1] = t[2] /\ (t[3] - t[2]) \in {-1, 0, 1}
             \/ t[2] = t[3] /\ (t[1] - t[2]) \in {-1, 0, 1}}}

LeavingWaypoints ==
  {<<<<l, p>>, <<l, p + e>>, OffRoute>> :
     <<l, p, e>> \in {t \in Lanes \X Positions \X (0..MaxExtent) : t[2] + t[3] <= RoadLen}}

\* A vehicle on a road of the route far from the others.
DistantWaypoints == {<<FarWaypoint, FarWaypoint, FarWaypoint>>}

VehicleWaypoints == OnRoadWaypoints \cup LeavingWaypoints \cup DistantWaypoints

\* What the simulation does to a tracked vehicle between two updates: it stays,
\* advances by one position, carries a lane change one step further (head, then
\* mid, then rear), leaves the route with its head, or is reported on a distant
\* road of the route.
Advanced(w) ==
  IF w[3][2] + 1 <= RoadLen
  THEN {<<<<w[1][1], w[1][2] + 1>>, <<w[2][1], w[2][2] + 1>>, <<w[3][1], w[3][2] + 1>>>>}
  ELSE {}

LaneChanged(w) ==
  IF w[1][1] = w[2][1] /\ w[2][1] = w[3][1]
  THEN {<<w[1], w[2], <<l, w[3][2]>>>> : l \in {k \in Lanes : k - w[3][1] \in {-1, 1}}}
  ELSE IF w[1][1] = w[2][1]
  THEN {<<w[1], <<w[3][1], w[2][2]>>, w[3]>>}
  ELSE {<<<<w[2][1], w[1][2]>>, w[2], w[3]>>}

Updates(w) ==
  {w} \cup Advanced(w) \cup LaneChanged(w) \cup {<<w[1], w[2], OffRoute>>} \cup DistantWaypoints

\* The ids of a set in ascending order.
RECURSIVE OrderOf(_)
OrderOf(S) == IF S = {} THEN << >> ELSE <<SetMin(S)>> \o OrderOf(S \ {SetMin(S)})

\* The orders a caller can hand the vehicles of a set in: the input is a
\* std::vector, gone through from its first element (line 852).
OrdersOf(S) == {order \in [1..Cardinality(S) -> S] : Range(order) = S}

\* ---------------------------------------------------------------- actions
\* `last` is a probe.  Every call is made either unobserved (last stays NoCall
\* and the behaviour goes on) or observed (last records the call, the lattice
\* before it and its result, and the behaviour ends there), so that every call
\* from every reachable lattice is recorded exactly once.
NoCall == [op |-> "none", id |-> 0, wp |-> <<NoNode, NoNode, NoNode>>, ids |-> {},
           wps |-> << >>, shift |-> 0, ret |-> 0, err |-> "", res |-> NoResult, removed |-> {},
           pre_vehicle |-> << >>, pre_table |-> << >>, pre_root |-> 0, pre_end |-> 0,
           env |-> NoEnv, out |-> NoStation(FALSE)]

\* The record of a call made in the current state.
Call(op) == [NoCall EXCEPT !.op = op,
                           !.pre_vehicle = node_vehicle,
                           !.pre_table = vehicle_to_nodes_table_,
                           !.pre_root = lattice_root,
                           !.pre_end = lattice_end]

\* The range of the lattice a TrafficManager is constructed with.
InitRange == RoadLen - 1
\* The largest distance a caller shifts the lattice by in one call.
MaxShift == 1

Init ==
  /\ node_vehicle = [n \in RoadNodes |-> NoVehicle]
  /\ vehicle_to_nodes_table_ = << >>
  /\ lattice_root = 0
  /\ lattice_end = InitRange
  /\ tracked = << >>
  /\ last = NoCall
  /\ station = NewStation
  /\ planner = NewPlanner
  /\ world = << >>
  /\ node_to_vertices_table_ = NoVertices

AddVehicle(id, wp) ==
  /\ \E r \in {addVehicle(node_vehicle, vehicle_to_nodes_table_,
                          lattice_root, lattice_end, id, wp)} :
        /\ node_vehicle' = r.veh
        /\ vehicle_to_nodes_table_' = r.tbl
        /\ tracked' = IF r.ret = 1
                      THEN [v \in DOMAIN tracked \cup {id} |-> IF v = id THEN wp ELSE tracked[v]]
                      ELSE tracked
        /\ \E observed \in BOOLEAN :
             last' = IF observed
                     THEN [Call("addVehicle") EXCEPT !.id = id, !.wp = wp, !.ret = r.ret]
                     ELSE NoCall
        /\ UNCHANGED <<lattice_root, lattice_end>>

DeleteVehicle(id, observed) ==
  /\ \E r \in {deleteVehicle(node_vehicle, vehicle_to_nodes_table_, id)} :
        /\ node_vehicle' = r.veh
        /\ vehicle_to_nodes_table_' = r.tbl
        /\ tracked' = [v \in DOMAIN r.tbl |-> tracked[v]]
        /\ last' = IF observed
                   THEN [Call("deleteVehicle") EXCEPT !.id = id, !.ret = r.ret]
                   ELSE NoCall
        /\ UNCHANGED <<lattice_root, lattice_end>>

\* moveTrafficForward with an update of the vehicles, handed in in the order of
\* the caller's vector (the order decides who is registered when two of them
\* collide).  A call with no vehicle at all on an empty lattice has undefined
\* behaviour (sortRoads dereferences begin() of an empty set): it is always
\* observed, and nothing is called on the lattice after it.
MoveTrafficForward(order, wps) ==
  /\ \E r \in {moveTrafficForward(node_vehicle, vehicle_to_nodes_table_,
                                  lattice_root, lattice_end, order, wps)} :
        /\ node_vehicle' = r.veh
        /\ vehicle_to_nodes_table_' = r.tbl
        /\ lattice_root' = r.lo
        /\ lattice_end' = r.hi
        /\ tracked' = IF r.err = "set-mismatch" THEN tracked
                      ELSE [v \in DOMAIN r.tbl |-> wps[v]]
        /\ \E observed \in BOOLEAN :
             last' = IF observed \/ r.err = "undefined"
                     THEN [Call("moveTrafficForward") EXCEPT
                             !.ids = Range(order), !.wps = wps,
                             !.ret = IF r.valid THEN 1 ELSE 0,
                             !.err = r.err, !.removed = r.removed]
                     ELSE NoCall

\* TrafficManager::moveTrafficForward with an update of the vehicles, in the
\* order of the caller's vector, and a shift that leaves the root on the road.
TrafficManagerMoveTrafficForward(order, wps, shift_distance) ==
  /\ lattice_root + shift_distance <= RoadLen
  /\ \E r \in {TrafficManager_moveTrafficForward(
                  node_vehicle, vehicle_to_nodes_table_, lattice_root, lattice_end,
                  order, wps, shift_distance)} :
        /\ node_vehicle' = r.veh
        /\ vehicle_to_nodes_table_' = r.tbl
        /\ lattice_root' = r.lo
        /\ lattice_end' = r.hi
        /\ tracked' = IF r.err = "set-mismatch" THEN tracked
                      ELSE [v \in DOMAIN r.tbl |-> wps[v]]
        /\ \E observed \in BOOLEAN :
             last' = IF observed
                     THEN [Call("TrafficManager::moveTrafficForward") EXCEPT
                             !.ids = Range(order), !.wps = wps, !.shift = shift_distance,
                             !.ret = IF r.valid THEN 1 ELSE 0,
                             !.err = r.err, !.removed = r.removed]
                     ELSE NoCall

\* The lattices a caller holds besides this one: each constructed from one
\* vehicle, with the waypoints it was constructed from.
OtherLattices ==
  {other \in {[lattice |-> TrafficLattice(<<v>>, v :> w), wps |-> v :> w] :
                v \in VehicleIds, w \in VehicleWaypoints} : other.lattice.err = ""}

\* TrafficLattice::swap(other): the nodes with their marks and the table of the
\* other lattice are this lattice's now (what the other lattice holds after is
\* not followed).
Swap(other) ==
  /\ node_vehicle' = other.lattice.veh
  /\ vehicle_to_nodes_table_' = other.lattice.tbl
  /\ lattice_root' = other.lattice.lo
  /\ lattice_end' = other.lattice.hi
  /\ tracked' = [v \in DOMAIN other.lattice.tbl |-> other.wps[v]]
  /\ last' = NoCall

\* The functions that map every id of ids to one of its updates.
RECURSIVE UpdateChoices(_)
UpdateChoices(ids) ==
  IF ids = {} THEN {<< >>}
  ELSE LET v == SetMax(ids)
       IN {[x \in ids |-> IF x = v THEN w ELSE f[x]] :
             f \in UpdateChoices(ids \ {v}), w \in Updates(tracked[v])}

\* The updates a caller can pass for the set ids: the tracked vehicles moved on,
\* or (for a set that is not the tracked one) any waypoints, which are not read.
UpdatesOf(ids) ==
  IF ids = DOMAIN tracked
  THEN UpdateChoices(ids)
  ELSE {[v \in ids |-> <<<<1, 0>>, <<1, 0>>, <<1, 0>>>>]}

\* A query changes nothing; it is always observed.
Query(op, v, ret, err, res) ==
  /\ last' = [Call(op) EXCEPT !.id = v, !.ret = ret, !.err = err, !.res = res]
  /\ UNCHANGED <<node_vehicle, vehicle_to_nodes_table_, lattice_root, lattice_end, tracked>>

Registered(v) == v \in DOMAIN vehicle_to_nodes_table_

IsChangingLane(v) ==
  IF ~Registered(v) THEN Query("isChangingLane", v, 0, "not-on-lattice", NoResult)
  ELSE LET r == isChangingLane(vehicle_to_nodes_table_, lattice_root, lattice_end, v)
       IN Query("isChangingLane", v, r.ret, r.err, NoResult)

Front(v) ==
  IF ~Registered(v) THEN Query("front", v, 0, "not-on-lattice", NoResult)
  ELSE Query("front", v, 0, "",
             front(node_vehicle, vehicle_to_nodes_table_, lattice_root, lattice_end, v))

Back(v) ==
  IF ~Registered(v) THEN Query("back", v, 0, "not-on-lattice", NoResult)
  ELSE Query("back", v, 0, "",
             back(node_vehicle, vehicle_to_nodes_table_, lattice_root, lattice_end, v))

LeftFront(v) ==
  IF ~Registered(v) THEN Query("leftFront", v, 0, "not-on-lattice", NoResult)
  ELSE Query("leftFront", v, 0, "",
             leftFront(node_vehicle, vehicle_to_nodes_table_, lattice_root, lattice_end, v))

LeftBack(v) ==
  IF ~Registered(v) THEN Query("leftBack", v, 0, "not-on-lattice", NoResult)
  ELSE Query("leftBack", v, 0, "",
             leftBack(node_vehicle, vehicle_to_nodes_table_, lattice_root, lattice_end, v))

RightFront(v) ==
  IF ~Registered(v) THEN Query("rightFront", v, 0, "not-on-lattice", NoResult)
  ELSE Query("rightFront", v, 0, "",
             rightFront(node_vehicle, vehicle_to_nodes_table_, lattice_root, lattice_end, v))

RightBack(v) ==
  IF ~Registered(v) THEN Query("rightBack", v, 0, "not-on-lattice", NoResult)
  ELSE Query("rightBack", v, 0, "",
             rightBack(node_vehicle, vehicle_to_nodes_table_, lattice_root, lattice_end, v))

\* A connection attempt from a station whose snapshot is the current lattice
\* with ego v (the ego of a snapshot is on its traffic lattice).
ConnectStationToFrontNode(v, env) ==
  /\ Registered(v)
  /\ last' = [Call("connectStationToFrontNode") EXCEPT
                !.id = v, !.env = env, !.out = connectStationToFrontNode(env)]
  /\ UNCHANGED <<node_vehicle, vehicle_to_nodes_table_, lattice_root, lattice_end, tracked>>

ConnectStationToLeftFrontNode(v, env) ==
  /\ Registered(v)
  /\ last' = [Call("connectStationToLeftFrontNode") EXCEPT
                !.id = v, !.env = env,
                !.out = connectStationToLeftFrontNode(
                          node_vehicle, vehicle_to_nodes_table_, lattice_root, lattice_end, v, env)]
  /\ UNCHANGED <<node_vehicle, vehicle_to_nodes_table_, lattice_root, lattice_end, tracked>>

ConnectStationToRightFrontNode(v, env) ==
  /\ Registered(v)
  /\ last' = [Call("connectStationToRightFrontNode") EXCEPT
                !.id = v, !.env = env,
                !.out = connectStationToRightFrontNode(
                          node_vehicle, vehicle_to_nodes_table_, lattice_root, lattice_end, v, env)]
  /\ UNCHANGED <<node_vehicle, vehicle_to_nodes_table_, lattice_root, lattice_end, tracked>>

Calls ==
  \/ \E id \in VehicleIds, wp \in VehicleWaypoints : AddVehicle(id, wp)
  \/ \E id \in VehicleIds, observed \in BOOLEAN : DeleteVehicle(id, observed)
  \/ \E ids \in SUBSET VehicleIds :
       \E order \in OrdersOf(ids), wps \in UpdatesOf(ids) : MoveTrafficForward(order, wps)
  \/ \E ids \in SUBSET VehicleIds, shift_distance \in 0..MaxShift :
       \E order \in OrdersOf(ids), wps \in UpdatesOf(ids) :
         TrafficManagerMoveTrafficForward(order, wps, shift_distance)
  \/ \E other \in OtherLattices : Swap(other)
  \/ \E v \in VehicleIds : IsChangingLane(v)
  \/ \E v \in VehicleIds : Front(v)
  \/ \E v \in VehicleIds : Back(v)
  \/ \E v \in VehicleIds : LeftFront(v)
  \/ \E v \in VehicleIds : LeftBack(v)
  \/ \E v \in VehicleIds : RightFront(v)
  \/ \E v \in VehicleIds : RightBack(v)
  \/ \E v \in VehicleIds, env \in Envs : ConnectStationToFrontNode(v, env)
  \/ \E v \in VehicleIds, env \in Envs : ConnectStationToLeftFrontNode(v, env)
  \/ \E v \in VehicleIds, env \in Envs : ConnectStationToRightFrontNode(v, env)

Next == last = NoCall /\ Calls /\ UNCHANGED <<station, planner, world, node_to_vertices_table_>>

Spec == Init /\ [][Next]_vars

\* ------------------------------------------------- a station on its own
\* The traffic lattice at rest while another object is exercised.
TrafficIdle ==
  /\ node_vehicle = [n \in RoadNodes |-> NoVehicle]
  /\ vehicle_to_nodes_table_ = << >>
  /\ lattice_root = 0
  /\ lattice_end = InitRange
  /\ tracked = << >>

\* The history of the calls on the station: the last call, and whether some
\* call so far replaced a stored parent by one of larger cost-to-come.
NoUpdate == [op |-> "none", raised |-> FALSE]

Raises(slot, cost_to_come) == slot /= NoParent /\ cost_to_come > slot[2]

InitStation ==
  /\ TrafficIdle
  /\ planner = NewPlanner
  /\ world = << >>
  /\ node_to_vertices_table_ = NoVertices
  /\ station = NewStation
  /\ last = NoUpdate

UpdateLeftParent(snapshot, cost_to_come, parent_station) ==
  /\ station' = updateLeftParent(station, snapshot, cost_to_come, parent_station)
  /\ last' = [op |-> "updateLeftParent",
              raised |-> last.raised \/ Raises(station.left_parent_, cost_to_come)]

UpdateBackParent(snapshot, cost_to_come, parent_station) ==
  /\ station' = updateBackParent(station, snapshot, cost_to_come, parent_station)
  /\ last' = [op |-> "updateBackParent",
              raised |-> last.raised \/ Raises(station.back_parent_, cost_to_come)]

UpdateRightParent(snapshot, cost_to_come, parent_station) ==
  /\ station' = updateRightParent(station, snapshot, cost_to_come, parent_station)
  /\ last' = [op |-> "updateRightParent",
              raised |-> last.raised \/ Raises(station.right_parent_, cost_to_come)]

NextStation ==
  /\ \E p \in Parents :
       \/ UpdateLeftParent(p[1], p[2], p[3])
       \/ UpdateBackParent(p[1], p[2], p[3])
       \/ UpdateRightParent(p[1], p[2], p[3])
  /\ UNCHANGED <<trafficVars, planner, world, node_to_vertices_table_>>

SpecStation == InitStation /\ [][NextStation]_vars

\* ------------------------------------------------- the planner on its own
\* The surroundings a planner lives in: how far the ego gets in a simulation
\* (keeping its lane: not at all, 2 m, 20 m, or the full 50 m; changing lane: 20 m
\* or the full 50 m), the stage cost of a simulation (keeping the lane and a
\* change to the right cost most), and how a connection ends.
MaxStageCost == 2
Covers == {0, 2 * Metre, 20 * Metre, 50 * Metre}
SideCovers == {20 * Metre, 50 * Metre}
World(cf, cs, kl, m) ==
  [cover |-> [front |-> cf, left |-> cs, right |-> cs],
   cost |-> [front |-> MaxStageCost, left |-> kl, right |-> MaxStageCost],
   sim |-> m]
AllConnect == [front |-> "ok", left |-> "ok", right |-> "ok"]
SimModes ==
  {[front |-> "collision", left |-> "ok", right |-> "ok"],
   [front |-> "ok", left |-> "nopath", right |-> "error"],
   [front |-> "error", left |-> "collision", right |-> "nopath"]}
\* Every cover and stage cost where all connections succeed, and every way a
\* connection fails for every cover of the lane keeping simulation.
Worlds ==
  {World(cf, cs, kl, AllConnect) : cf \in Covers, cs \in SideCovers, kl \in 1..MaxStageCost}
  \cup {World(cf, 50 * Metre, 1, m) : cf \in Covers, m \in SimModes}

\* The snapshots a caller hands to planPath: the ego (vehicle 1) on a node of
\* either lane, at its policy speed, alone or with an agent alongside.
EgoPositions ==
  {0, 2 * Metre, 10 * Metre, 195, 196, 20 * Metre, 21 * Metre, 50 * Metre, 60 * Metre}
InputSnapshots ==
  {PlannerSnapshot(1, <<l, x>>, PolicySpeed, b) : l \in Lanes, x \in EgoPositions, b \in BOOLEAN}

\* The observed call of planPath: its arguments, the planner before it, and
\* what it gave.
NoTick == [op |-> "none", ego |-> 0, snapshot |-> PlannerSnapshot(0, NoNode, 0, FALSE),
           pre |-> NewPlanner, kind |-> "", err |-> "", path |-> << >>, ret |-> FALSE]

InitPlanner ==
  /\ TrafficIdle
  /\ station = NewStation
  /\ planner = NewPlanner
  /\ world \in Worlds
  /\ node_to_vertices_table_ = NoVertices
  /\ last = NoTick

\* What a call of planPath leaves: the planner, and the call observed or not;
\* nothing is called on a planner after a call that did not return or left
\* defined behaviour.
PlanPathReturns(ego, snapshot, r) ==
  /\ planner' = r.p
  /\ \/ r.kind \in {"path", "error"} /\ UNCHANGED last
     \/ last' = [NoTick EXCEPT !.op = "planPath", !.ego = ego, !.snapshot = snapshot,
                                !.pre = planner, !.kind = r.kind, !.err = r.err,
                                !.path = r.path]

\* A call of planPath.
PlanPath(ego, snapshot) ==
  \E r \in planPath(planner, world, ego, snapshot) : PlanPathReturns(ego, snapshot, r)

\* An observed call of immediateNextStationReached on a planner that has a
\* lattice holding the ego's node and the node of its cached next station.
ImmediateNextStationReached(snapshot) ==
  /\ planner.waypoint_lattice_ /= NoLattice
  /\ ReachedDefined(planner, snapshot)
  /\ last' = [NoTick EXCEPT !.op = "immediateNextStationReached", !.snapshot = snapshot,
                            !.pre = planner, !.kind = "value",
                            !.ret = Reached(planner, snapshot)]
  /\ UNCHANGED planner

NextPlanner ==
  /\ last = NoTick
  /\ \/ \E ego \in VehicleIds, snapshot \in InputSnapshots : PlanPath(ego, snapshot)
     \/ \E snapshot \in InputSnapshots : ImmediateNextStationReached(snapshot)
  /\ UNCHANGED <<trafficVars, station, world, node_to_vertices_table_>>

SpecPlanner == InitPlanner /\ [][NextPlanner]_vars

\* ----------------------------------------- a traffic lattice is constructed
\* The state before the constructor runs: nothing is registered.  A
\* construction that throws leaves this state as it is.
InitConstruction ==
  /\ TrafficIdle
  /\ station = NewStation
  /\ planner = NewPlanner
  /\ world = << >>
  /\ node_to_vertices_table_ = NoVertices
  /\ last = NoCall

\* What a construction leaves: the lattice, if none was thrown.
Constructed(order, wps, r) ==
  /\ last' = [Call("TrafficLattice") EXCEPT
                !.ids = Range(order), !.wps = wps, !.err = r.err, !.removed = r.removed,
                !.ret = r.nodes]
  /\ IF r.err /= ""
     THEN UNCHANGED trafficVars
     ELSE /\ node_vehicle' = r.veh
          /\ vehicle_to_nodes_table_' = r.tbl
          /\ lattice_root' = r.lo
          /\ lattice_end' = r.hi
          /\ tracked' = [v \in DOMAIN r.tbl |-> wps[v]]

\* The construction from the vehicles ids, handed in in the given order; the
\* call is recorded with the number of lattice nodes it created.
ConstructTrafficLattice(order, wps) == Constructed(order, wps, TrafficLattice(order, wps))

NextConstruction ==
  /\ last = NoCall
  /\ \E ids \in SUBSET VehicleIds :
       \E order \in OrdersOf(ids), wps \in [ids -> VehicleWaypoints] :
         ConstructTrafficLattice(order, wps)
  /\ UNCHANGED <<station, planner, world, node_to_vertices_table_>>

SpecConstruction == InitConstruction /\ [][NextConstruction]_vars

\* ------------------------------------------ the vertex table on its own
\* Speeds on both sides of every interval end, in 0.0001 m/s.
InputSpeeds ==
  {0 - 1, 0, 1} \cup UNION {{b - 1, b, b + 1} : b \in {134112, 268224, 402336}}
InputVertices == {Vertex(n, s) : n \in VertexNodeIds, s \in InputSpeeds}

NoVertexCall == [op |-> "none", speed |-> 0, vertex |-> NullVertex, pre |-> NoVertices,
                 ret |-> NoInterval, err |-> ""]

InitVertices ==
  /\ TrafficIdle
  /\ station = NewStation
  /\ planner = NewPlanner
  /\ world = << >>
  /\ node_to_vertices_table_ = NoVertices
  /\ last = NoVertexCall

\* A call of speedIntervalIdx, observed.
SpeedIntervalIdx(speed) ==
  /\ last' = [NoVertexCall EXCEPT !.op = "speedIntervalIdx", !.speed = speed,
                                   !.ret = speedIntervalIdx(speed)]
  /\ UNCHANGED node_to_vertices_table_

\* A vertex of valid speed is added while the graph is built.
AddVertexToTable(vertex) ==
  /\ speedIntervalIdx(vertex.speed) /= NoInterval
  /\ node_to_vertices_table_' =
       addVertexToTable(node_to_vertices_table_, vertex, "").table
  /\ UNCHANGED last

\* A call of addVertexToTable, observed.
AddVertexToTableObserved(vertex) ==
  \E error \in ErrorMessageOutcomes :
    LET r == addVertexToTable(node_to_vertices_table_, vertex, error)
    IN /\ node_to_vertices_table_' = r.table
       /\ last' = [NoVertexCall EXCEPT !.op = "addVertexToTable", !.vertex = vertex,
                                        !.speed = vertex.speed,
                                        !.pre = node_to_vertices_table_, !.err = r.err]

NextVertices ==
  /\ last = NoVertexCall
  /\ \/ \E speed \in InputSpeeds : SpeedIntervalIdx(speed)
     \/ \E vertex \in InputVertices : AddVertexToTable(vertex)
     \/ \E vertex \in InputVertices : AddVertexToTableObserved(vertex)
  /\ UNCHANGED <<trafficVars, station, planner, world>>

SpecVertices == InitVertices /\ [][NextVertices]_vars

\* ----------------------------------------------- a simulator on its own
\* Accelerations in m/s2, stored in the snapshot or answered by idm_.
Accelerations == {0 - 1, 0, 1}
SimulatorWorlds ==
  {[ego |-> 1, acceleration |-> [v \in VehicleIds |-> IF v = 1 THEN a1 ELSE a2],
    idm |-> [free |-> f, following |-> g]] :
     a1 \in Accelerations, a2 \in Accelerations, f \in Accelerations, g \in Accelerations}

NoStep == [op |-> "none", simulator |-> "", vehicle |-> 0, ret |-> 0]

\* The traffic lattice of the snapshot is the one constructed from its vehicles.
SnapshotLattice(r) ==
  /\ r.err = ""
  /\ r.removed = {}
  /\ node_vehicle = r.veh
  /\ vehicle_to_nodes_table_ = r.tbl
  /\ lattice_root = r.lo
  /\ lattice_end = r.hi

\* A simulator constructed on a snapshot of the ego and one agent.
InitSimulator ==
  /\ \E wps \in [VehicleIds -> OnRoadWaypoints] :
       /\ SnapshotLattice(TrafficLattice(OrderOf(VehicleIds), wps))
       /\ tracked = wps
  /\ station = NewStation
  /\ planner = NewPlanner
  /\ node_to_vertices_table_ = NoVertices
  /\ world \in SimulatorWorlds
  /\ last = NoStep

\* The accelerations a simulation step asks for, observed.
EgoAcceleration(simulator) ==
  last' = [NoStep EXCEPT
             !.op = "egoAcceleration", !.simulator = simulator, !.vehicle = world.ego,
             !.ret = IF simulator = "ConstAccel" THEN ConstAccelEgoAcceleration(world)
                     ELSE IDMEgoAcceleration(world, node_vehicle, vehicle_to_nodes_table_,
                                             lattice_root, lattice_end)]

AgentAcceleration(simulator, agent) ==
  last' = [NoStep EXCEPT
             !.op = "agentAcceleration", !.simulator = simulator, !.vehicle = agent,
             !.ret = IF simulator = "ConstAccel" THEN ConstAccelAgentAcceleration(world, agent)
                     ELSE IDMAgentAcceleration(world, node_vehicle, vehicle_to_nodes_table_,
                                               lattice_root, lattice_end, agent)]

NextSimulator ==
  /\ last = NoStep
  /\ \E simulator \in {"IDM", "ConstAccel"} :
       \/ EgoAcceleration(simulator)
       \/ \E agent \in VehicleIds \ {world.ego} : AgentAcceleration(simulator, agent)
  /\ UNCHANGED <<trafficVars, station, planner, world, node_to_vertices_table_>>

SpecSimulator == InitSimulator /\ [][NextSimulator]_vars

\* ---------------------------------------------------- the router on its own
\* The road ids asked about: the roads of the loop and some that are not.
RoadsOffRoute == {0, 44, 660, 1022}
RoadIds == {road_sequence_[i] : i \in 1..Len(road_sequence_)} \cup RoadsOffRoute

NoRoute == [op |-> "none", road |-> 0, answer |-> NotOnRoute, back |-> NotOnRoute]

\* A caller follows the loop from its first road; world is the road it is on.
InitRouter ==
  /\ TrafficIdle
  /\ station = NewStation
  /\ planner = NewPlanner
  /\ node_to_vertices_table_ = NoVertices
  /\ world = road_sequence_[1]
  /\ last = NoRoute

\* The caller moves on to the next road, or back to the previous one.
FollowRoute == world' = nextRoad(world).road /\ UNCHANGED last
FollowRouteBack == world' = prevRoad(world).road /\ UNCHANGED last

\* Observed calls: the answer for a road and, when there is one, the answer of
\* the opposite operation for the road answered.
NextRoad(road) ==
  /\ last' = [NoRoute EXCEPT
                !.op = "nextRoad", !.road = road, !.answer = nextRoad(road),
                !.back = IF nextRoad(road).err = "" THEN prevRoad(nextRoad(road).road)
                         ELSE NotOnRoute]
  /\ UNCHANGED world

PrevRoad(road) ==
  /\ last' = [NoRoute EXCEPT
                !.op = "prevRoad", !.road = road, !.answer = prevRoad(road),
                !.back = IF prevRoad(road).err = "" THEN nextRoad(prevRoad(road).road)
                         ELSE NotOnRoute]
  /\ UNCHANGED world

NextRouter ==
  /\ last = NoRoute
  /\ \/ FollowRoute
     \/ FollowRouteBack
     \/ \E road \in RoadIds \cup {world} : NextRoad(road) \/ PrevRoad(road)
  /\ UNCHANGED <<trafficVars, station, planner, node_to_vertices_table_>>

SpecRouter == InitRouter /\ [][NextRouter]_vars

\* ------------------------------------------------ roads sorted on their own
\* The sets of roads handed to sortRoads: the roads of the waypoints of the
\* input vehicles that are on the route, up to three of them.
RouteRoads == {road_sequence_[i] : i \in 1..Len(road_sequence_)}
RoadSets == {{a, b, c} : a \in RouteRoads, b \in RouteRoads, c \in RouteRoads}

NoSort == [op |-> "none", seed |-> 0, err |-> "", sorted |-> << >>]

\* world is the set of roads to be sorted.
InitRoads ==
  /\ TrafficIdle
  /\ station = NewStation
  /\ planner = NewPlanner
  /\ node_to_vertices_table_ = NoVertices
  /\ world \in RoadSets
  /\ last = NoSort

\* What a call of sortRoads gives.
SortRoadsReturns(seed, r) ==
  last' = [NoSort EXCEPT !.op = "sortRoads", !.seed = seed, !.err = r.err, !.sorted = r.sorted]

\* A call of sortRoads in which the unordered set gives seed as its first road.
SortRoads(seed) == SortRoadsReturns(seed, sortRoads(world, seed))

NextRoads ==
  /\ last = NoSort
  /\ \E seed \in world : SortRoads(seed)
  /\ UNCHANGED <<trafficVars, station, planner, world, node_to_vertices_table_>>

SpecRoads == InitRoads /\ [][NextRoads]_vars

\* ============================================================= properties
Table == vehicle_to_nodes_table_

\* The node list addVehicle collects for the observed call's waypoints on the
\* lattice the call was made on.
Snaps(wp, lo, hi) ==
  /\ closestNode(wp[1], lo, hi) /= NoNode
  /\ closestNode(wp[2], lo, hi) /= NoNode
  /\ closestNode(wp[3], lo, hi) /= NoNode

Span(wp, lo, hi) == CollectNodes(wp[1], wp[2], wp[3], lo, hi)

LastSnaps == Snaps(last.wp, last.pre_root, last.pre_end)
LastSpan == Span(last.wp, last.pre_root, last.pre_end)
LastSpanOccupied == \E n \in Range(LastSpan) : last.pre_vehicle[n] /= NoVehicle

LatticeUnchanged ==
  /\ node_vehicle = last.pre_vehicle
  /\ Table = last.pre_table
  /\ lattice_root = last.pre_root
  /\ lattice_end = last.pre_end

\* C1: in every reachable state a node's vehicle id is v exactly when the node
\* is in vehicle_to_nodes[v]; so the node lists of two distinct registered
\* vehicles are disjoint (and a node, holding one id, has at most one occupant).
C1_OccupancyMatchesTable ==
  /\ \A n \in RoadNodes : \A v \in VehicleIds :
       (node_vehicle[n] = v) <=> (v \in DOMAIN Table /\ n \in Range(Table[v]))
  /\ \A n \in RoadNodes : node_vehicle[n] \in VehicleIds \cup {NoVehicle}
  /\ \A u \in DOMAIN Table : \A v \in DOMAIN Table :
       u /= v => Range(Table[u]) \cap Range(Table[v]) = {}

\* A moveTrafficForward that returned false after a collision, with a vehicle
\* registered before the collision still on the lattice.
C1_Witness ==
  /\ last.op = "moveTrafficForward" /\ last.err = "" /\ last.ret = 0
  /\ DOMAIN Table /= {}

\* C2: an addVehicle that finds a node of the collected span occupied returns
\* -1 and leaves every node's occupant and the table as they were.
C2_CollisionRollsBack ==
  (/\ last.op = "addVehicle"
   /\ last.id \notin DOMAIN last.pre_table
   /\ LastSnaps
   /\ LastSpanOccupied)
  => (last.ret = -1 /\ LatticeUnchanged)

\* A failed addVehicle that had marked the first node of its span before it met
\* the occupied one.
C2_Witness ==
  /\ last.op = "addVehicle" /\ last.ret = -1
  /\ last.pre_vehicle[LastSpan[1]] = NoVehicle

\* C3 as stated: after addVehicle(v) of any vehicle, deleteVehicle(v.id) gives
\* back the occupancies and the table from before the addVehicle.
C3_AddDeleteRestores_Original ==
  last.op = "addVehicle" =>
    LET d == deleteVehicle(node_vehicle, Table, last.id)
    IN d.veh = last.pre_vehicle /\ d.tbl = last.pre_table

\* C3 amended: after addVehicle(v) of a vehicle whose id was not registered,
\* deleteVehicle(v.id) gives back the occupancies and the table from before.
C3_AddDeleteRestores ==
  (last.op = "addVehicle" /\ last.id \notin DOMAIN last.pre_table) =>
    LET d == deleteVehicle(node_vehicle, Table, last.id)
    IN d.veh = last.pre_vehicle /\ d.tbl = last.pre_table

\* An addVehicle that registered a new vehicle next to another one.
C3_Witness ==
  /\ last.op = "addVehicle" /\ last.ret = 1
  /\ DOMAIN last.pre_table /= {}

\* C4 as stated: 1 exactly when the vehicle ends up registered with its span
\* marked, 0 exactly when a waypoint cannot be snapped (nothing changes), -1
\* exactly when a node of the span was occupied.
C4_ReturnCodes_Original ==
  last.op = "addVehicle" =>
    /\ (last.ret = 1) <=>
         (/\ LastSnaps
          /\ last.id \in DOMAIN Table
          /\ Table[last.id] = LastSpan
          /\ \A n \in Range(LastSpan) : node_vehicle[n] = last.id)
    /\ (last.ret = 0) <=> ~LastSnaps
    /\ (last.ret = 0) => LatticeUnchanged
    /\ (last.ret = -1) <=> (LastSnaps /\ LastSpanOccupied)

\* C4 amended: 0 exactly when the id is already registered or a waypoint cannot
\* be snapped (nothing changes); -1 exactly when the id is new, the waypoints
\* snap and a node of the span was occupied; 1 exactly when the id is new and
\* ends up registered with its span, every node of it marked with the id.
C4_ReturnCodes ==
  last.op = "addVehicle" =>
    /\ last.ret \in {-1, 0, 1}
    /\ (last.ret = 0) <=> (last.id \in DOMAIN last.pre_table \/ ~LastSnaps)
    /\ (last.ret = 0) => LatticeUnchanged
    /\ (last.ret = -1) <=>
         (last.id \notin DOMAIN last.pre_table /\ LastSnaps /\ LastSpanOccupied)
    /\ (last.ret = 1) <=>
         (/\ last.id \notin DOMAIN last.pre_table
          /\ LastSnaps
          /\ last.id \in DOMAIN Table
          /\ Table[last.id] = LastSpan
          /\ \A n \in Range(LastSpan) : node_vehicle[n] = last.id)

\* An addVehicle of a registered id, with waypoints that all snap, returned 0.
C4_Witness ==
  /\ last.op = "addVehicle" /\ last.ret = 0
  /\ last.id \in DOMAIN last.pre_table
  /\ LastSnaps

\* C5 as stated: after moveTrafficForward(S) returned true the registered ids
\* are the ids of S.
C5_RegisteredEqualsInput_Original ==
  (last.op = "moveTrafficForward" /\ last.err = "" /\ last.ret = 1)
    => DOMAIN Table = last.ids

\* C5 amended: after moveTrafficForward(S) returned true the registered ids are
\* the ids of S whose rear, mid and head waypoints all snap to a node of the
\* moved lattice; the others are the reported disappear_vehicles.
C5_RegisteredEqualsSnapped ==
  (last.op = "moveTrafficForward" /\ last.err = "" /\ last.ret = 1)
    => /\ DOMAIN Table = {v \in last.ids : Snaps(last.wps[v], lattice_root, lattice_end)}
       /\ last.removed = last.ids \ DOMAIN Table

\* A moveTrafficForward returned true, dropped a vehicle and kept another.
C5_Witness ==
  /\ last.op = "moveTrafficForward" /\ last.err = "" /\ last.ret = 1
  /\ last.removed /= {}
  /\ DOMAIN Table /= {}

\* C6: moveTrafficForward with a set of ids that is not the registered set
\* fails with set-mismatch and changes neither the occupancies, nor the table,
\* nor the lattice.
C6_SetMismatchChangesNothing ==
  (last.op = "moveTrafficForward" /\ last.ids /= DOMAIN last.pre_table)
    => (last.err = "set-mismatch" /\ LatticeUnchanged)

\* A moveTrafficForward with an extra id (and all the registered ones) failed.
C6_Witness ==
  /\ last.op = "moveTrafficForward" /\ last.err = "set-mismatch"
  /\ DOMAIN last.pre_table /= {}
  /\ DOMAIN last.pre_table \subseteq last.ids

\* The node list goes from its first to its last node by front links only.
PureChain(nodes) ==
  \A i \in 1..(Len(nodes) - 1) : nodes[i + 1] = <<nodes[i][1], nodes[i][2] + 1>>

\* C7: isChangingLane of a registered vehicle whose nodes all lie on one lane
\* (a pure chain of front links from its rear to its head node) returns 0 and
\* does not fail.
C7_InLaneReturnsZero ==
  (/\ last.op = "isChangingLane"
   /\ last.id \in DOMAIN Table
   /\ PureChain(Table[last.id]))
  => (last.err = "" /\ last.ret = 0)

\* C8: isChangingLane of a registered vehicle with rear and mid on lane A and
\* head on a neighbour lane B returns -1 if B is left of A, +1 if B is right of
\* A, and does not fail.
C8_StraddleReturnsSide ==
  (/\ last.op = "isChangingLane"
   /\ last.id \in DOMAIN Table
   /\ vehicleRearNode(Table, last.id)[1] = tracked[last.id][2][1]
   /\ vehicleHeadNode(Table, last.id)[1] /= tracked[last.id][2][1])
  => /\ last.err = ""
     /\ last.ret = IF vehicleHeadNode(Table, last.id)[1] = tracked[last.id][2][1] - 1
                   THEN -1 ELSE 1

\* The occupied nodes ahead of (behind) node n on its lane, and the nearest.
AheadOccupied(n) ==
  {m \in RoadNodes : m[1] = n[1] /\ m[2] > n[2] /\ m[2] <= lattice_end
                     /\ node_vehicle[m] /= NoVehicle}
BehindOccupied(n) ==
  {m \in RoadNodes : m[1] = n[1] /\ m[2] < n[2] /\ m[2] >= lattice_root
                     /\ node_vehicle[m] /= NoVehicle}
FirstAhead(n) == CHOOSE m \in AheadOccupied(n) : \A k \in AheadOccupied(n) : m[2] <= k[2]
FirstBehind(n) == CHOOSE m \in BehindOccupied(n) : \A k \in BehindOccupied(n) : m[2] >= k[2]

HeadNode(v) == vehicleHeadNode(Table, v)
RearNode(v) == vehicleRearNode(Table, v)
Distance(n) == NodeDistance(n, lattice_root)
FreeBetween(lane, from, to) ==
  \A m \in RoadNodes : (m[1] = lane /\ m[2] > from /\ m[2] < to) => node_vehicle[m] = NoVehicle

\* C9 as stated: front(v) is none if no occupied node lies ahead of H(v);
\* otherwise (u, R(u).distance - H(v).distance), u /= v the occupant of the
\* first occupied node, nothing occupied between H(v) and R(u).  back(v) is the
\* mirror image with R(v).distance - H(u).distance.
C9_FrontBack_Original ==
  /\ (last.op = "front" /\ last.id \in DOMAIN Table) =>
       IF AheadOccupied(HeadNode(last.id)) = {} THEN last.res = NoResult
       ELSE LET u == node_vehicle[FirstAhead(HeadNode(last.id))]
            IN /\ u /= last.id
               /\ last.res = <<u, Distance(RearNode(u)) - Distance(HeadNode(last.id))>>
               /\ FreeBetween(HeadNode(last.id)[1], HeadNode(last.id)[2], RearNode(u)[2])
  /\ (last.op = "back" /\ last.id \in DOMAIN Table) =>
       IF BehindOccupied(RearNode(last.id)) = {} THEN last.res = NoResult
       ELSE LET u == node_vehicle[FirstBehind(RearNode(last.id))]
            IN /\ u /= last.id
               /\ last.res = <<u, Distance(RearNode(last.id)) - Distance(HeadNode(u))>>
               /\ FreeBetween(RearNode(last.id)[1], HeadNode(u)[2], RearNode(last.id)[2])

\* C9 amended: front(v) is none if no occupied node lies ahead of H(v);
\* otherwise (u, n.distance - H(v).distance), n the first occupied node ahead
\* and u /= v its occupant, nothing occupied between H(v) and n.  back(v) is
\* the mirror image with R(v).distance - n.distance.
C9_FrontBack ==
  /\ (last.op = "front" /\ last.id \in DOMAIN Table) =>
       IF AheadOccupied(HeadNode(last.id)) = {} THEN last.res = NoResult
       ELSE LET n == FirstAhead(HeadNode(last.id))
            IN /\ node_vehicle[n] /= last.id
               /\ last.res = <<node_vehicle[n], Distance(n) - Distance(HeadNode(last.id))>>
               /\ FreeBetween(n[1], HeadNode(last.id)[2], n[2])
  /\ (last.op = "back" /\ last.id \in DOMAIN Table) =>
       IF BehindOccupied(RearNode(last.id)) = {} THEN last.res = NoResult
       ELSE LET n == FirstBehind(RearNode(last.id))
            IN /\ node_vehicle[n] /= last.id
               /\ last.res = <<node_vehicle[n], Distance(RearNode(last.id)) - Distance(n)>>
               /\ FreeBetween(n[1], n[2], RearNode(last.id)[2])

\* front(v) met a vehicle that straddles two lanes at a node that is not its
\* rear node, beyond a free node.
C9_Witness ==
  /\ last.op = "front" /\ last.id \in DOMAIN Table
  /\ last.res /= NoResult
  /\ last.res[2] > 1
  /\ FirstAhead(HeadNode(last.id)) /= RearNode(last.res[1])

\* The result a left/right front query must give from the side node L of H(v).
SideFront(v, L, res) ==
  /\ res[1] /= v
  /\ IF L = NoNode THEN res = NoResult
     ELSE IF node_vehicle[L] = NoVehicle
     THEN IF AheadOccupied(L) = {} THEN res = NoResult
          ELSE res[1] = node_vehicle[FirstAhead(L)]
     ELSE res = <<node_vehicle[L], Distance(RearNode(node_vehicle[L])) - Distance(HeadNode(v))>>

\* The result a left/right back query must give from the side node L of R(v).
SideBack(v, L, res) ==
  /\ res[1] /= v
  /\ IF L = NoNode THEN res = NoResult
     ELSE IF node_vehicle[L] = NoVehicle
     THEN IF BehindOccupied(L) = {} THEN res = NoResult
          ELSE res[1] = node_vehicle[FirstBehind(L)]
     ELSE res = <<node_vehicle[L], Distance(RearNode(v)) - Distance(HeadNode(node_vehicle[L]))>>

\* C10: leftFront(v) is none if H has no left node L; the first vehicle met
\* walking front links from L if L is free; (u, R(u).distance - H.distance) if
\* L is occupied by u; never v itself.  rightFront is the same with the right
\* node; leftBack and rightBack start from R(v), walk back links and measure
\* R(v).distance - H(u).distance.
C10_SideQueries ==
  /\ (last.op = "leftFront" /\ last.id \in DOMAIN Table) =>
       SideFront(last.id, NodeLeft(HeadNode(last.id), lattice_root, lattice_end), last.res)
  /\ (last.op = "rightFront" /\ last.id \in DOMAIN Table) =>
       SideFront(last.id, NodeRight(HeadNode(last.id), lattice_root, lattice_end), last.res)
  /\ (last.op = "leftBack" /\ last.id \in DOMAIN Table) =>
       SideBack(last.id, NodeLeft(RearNode(last.id), lattice_root, lattice_end), last.res)
  /\ (last.op = "rightBack" /\ last.id \in DOMAIN Table) =>
       SideBack(last.id, NodeRight(RearNode(last.id), lattice_root, lattice_end), last.res)

\* leftFront(v) found the left node of H(v) occupied by a vehicle whose rear
\* node lies behind it.
C10_Witness ==
  /\ last.op = "leftFront" /\ last.id \in DOMAIN Table
  /\ NodeLeft(HeadNode(last.id), lattice_root, lattice_end) /= NoNode
  /\ node_vehicle[NodeLeft(HeadNode(last.id), lattice_root, lattice_end)] /= NoVehicle
  /\ last.res[2] < 0

\* The agents alongside the ego on the lane left (dl = -1) or right (dl = 1)
\* of its head node: occupants, other than the ego, of a node of that lane at a
\* position within the ego's span.
Alongside(ego, dl) ==
  {node_vehicle[n] : n \in {m \in RoadNodes :
      /\ m[1] = HeadNode(ego)[1] + dl
      /\ m[2] >= RearNode(ego)[2] /\ m[2] <= HeadNode(ego)[2]
      /\ m[2] >= lattice_root /\ m[2] <= lattice_end
      /\ node_vehicle[m] /= NoVehicle /\ node_vehicle[m] /= ego}}

\* The occupants of the side nodes of the ego's head node and rear node.
BesideEnds(ego, dl) ==
  {node_vehicle[n] : n \in {m \in RoadNodes :
      /\ m \in {<<HeadNode(ego)[1] + dl, HeadNode(ego)[2]>>,
                <<RearNode(ego)[1] + dl, RearNode(ego)[2]>>}
      /\ node_vehicle[m] /= NoVehicle}}

\* C11 as stated: with an agent alongside the ego on the adjacent left (right)
\* lane, anywhere within the ego's span, the left (right) connection returns
\* no station, sets no link and runs no simulation.
C11_AlongsideBlocks_Original ==
  /\ (last.op = "connectStationToLeftFrontNode" /\ Alongside(last.id, -1) /= {})
       => last.out = NoStation(FALSE)
  /\ (last.op = "connectStationToRightFrontNode" /\ Alongside(last.id, 1) /= {})
       => last.out = NoStation(FALSE)

\* C11 amended: with a vehicle on the left (right) node of the ego's head node
\* or of its rear node, the left (right) connection returns no station, sets
\* no link and runs no simulation.
C11_BesideEndsBlocks ==
  /\ (last.op = "connectStationToLeftFrontNode" /\ BesideEnds(last.id, -1) /= {})
       => last.out = NoStation(FALSE)
  /\ (last.op = "connectStationToRightFrontNode" /\ BesideEnds(last.id, 1) /= {})
       => last.out = NoStation(FALSE)

\* A left connection that everything but the vehicle beside the ego's rear
\* node would let through.
C11_Witness ==
  /\ last.op = "connectStationToLeftFrontNode"
  /\ last.env = [target |-> TRUE, far |-> TRUE, offset |-> 0, path |-> TRUE, sim |-> "ok"]
  /\ RearNode(last.id)[1] = 2 /\ HeadNode(last.id)[1] = 2
  /\ node_vehicle[<<1, RearNode(last.id)[2]>>] /= NoVehicle
  /\ node_vehicle[<<1, HeadNode(last.id)[2]>>] = NoVehicle
  /\ last.out = NoStation(FALSE)

\* The parents a station currently stores, and their least cost-to-come.
StoredParents ==
  {station.left_parent_, station.back_parent_, station.right_parent_} \ {NoParent}
MinStoredCost == SetMin({p[2] : p \in StoredParents})
MinimalParents == {p \in StoredParents : p[2] = MinStoredCost}

\* C13: after any sequence of updateLeftParent, updateBackParent and
\* updateRightParent calls, the optimal parent is one of the stored parents and
\* the cost-to-come is the least cost-to-come of the stored parents.
C13_OptimalIsStoredMinimum ==
  StoredParents /= {} =>
    /\ station.optimal_parent_ \in StoredParents
    /\ costToCome(station) = MinStoredCost

\* C14: when several stored parents share the least cost-to-come, the optimal
\* parent is the back parent if it is among them, and otherwise the left
\* parent (in preference to the right parent).
C14_TieBreak ==
  (/\ StoredParents /= {}
   /\ \E p, q \in {"l", "b", "r"} : p /= q
        /\ LET slot == [l |-> station.left_parent_, b |-> station.back_parent_,
                        r |-> station.right_parent_]
           IN slot[p] \in MinimalParents /\ slot[q] \in MinimalParents)
  => IF station.back_parent_ \in MinimalParents
     THEN station.optimal_parent_ = station.back_parent_
     ELSE station.optimal_parent_ = station.left_parent_

\* The distances the observed call reads on the planner it was made on: that
\* of the ego's node and that of the cached next station's node.
EgoDistance == last.snapshot.node[2] - last.pre.waypoint_lattice_.start
TargetDistance ==
  last.pre.stations[last.pre.cached_next_station_].id[2] - last.pre.waypoint_lattice_.start

\* C16: immediateNextStationReached returns true exactly when the distance of
\* the cached next station's node minus the distance of the ego's node is less
\* than 0.5 m.
C16_ReachedIffWithinHalfMetre ==
  last.op = "immediateNextStationReached" =>
    (last.ret <=> 2 * (TargetDistance - EgoDistance) < Metre)

\* The ego 0.4 m short of the cached next station: reached.
C16_Witness ==
  /\ last.op = "immediateNextStationReached"
  /\ 10 * (TargetDistance - EgoDistance) = 4 * Metre
  /\ last.ret

\* C17: planPath called with an id that is not the id of the snapshot's ego
\* fails with the wrong-ego error and leaves the waypoint lattice, the station
\* table, the root and the cached next station as they were.
C17_WrongEgoChangesNothing ==
  (last.op = "planPath" /\ last.ego /= last.snapshot.ego) =>
    /\ last.kind = "error"
    /\ last.err = "wrong-ego"
    /\ planner = last.pre

\* A wrong-ego call on a planner that has planned before, with a snapshot
\* that would have been planned for had the id been the ego's.
C17_Witness ==
  /\ last.op = "planPath"
  /\ last.ego /= last.snapshot.ego
  /\ last.err = "wrong-ego"
  /\ last.pre.cached_next_station_ > 0
  /\ \A r \in planPath(last.pre, world, last.snapshot.ego, last.snapshot) : r.p /= last.pre

\* The same call made a second time on the planner the observed call left:
\* the outcomes it can have.
Again == planPath(planner, world, last.ego, last.snapshot)
\* Every outcome of the second call is the path of the observed call.
AgainSamePath == \A again \in Again : again.kind = "path" /\ again.path = last.path

\* C15: a planPath call that returned a path, repeated at once with the same
\* snapshot in the same surroundings, returns the same path, whatever order
\* the station table is gone through in.
C15_SameSnapshotSamePath ==
  (last.op = "planPath" /\ last.kind = "path") => AgainSamePath

\* The child links of a station, and the root-to-terminal paths through child
\* links that start at a station: sequences of child links, the last one
\* leading to a station without children (at most depth links long).
ChildLinks(st) == {st.front_child_, st.left_child_, st.right_child_} \ {NoChild}

RECURSIVE PathsFrom(_, _, _)
PathsFrom(p, stn, depth) ==
  IF ~hasChild(p.stations[stn]) THEN {<< >>}
  ELSE IF depth = 0 THEN {}
  ELSE UNION {{<<link>> \o rest : rest \in PathsFrom(p, link[3], depth - 1)} :
                link \in ChildLinks(p.stations[stn])}

RECURSIVE SumOfStageCosts(_)
SumOfStageCosts(links) ==
  IF links = << >> THEN 0 ELSE links[1][2] + SumOfStageCosts(Tail(links))

\* The total cost of a path of child links: the stage costs of its edges plus
\* the terminal costs of the station it ends in.
TotalCost(p, links) ==
  LET terminal == p.stations[links[Len(links)][3]]
      root == p.stations[p.root_]
  IN SumOfStageCosts(links)
     + terminalSpeedCost(terminal.snapshot_.speed, terminal.snapshot_.policy)
     + terminalDistanceCost(root.id[2], p.stations[RootChild(root)].id[2], terminal.id[2])

\* The child links whose paths the observed call returned.
LinkOfPath(p, path) ==
  CHOOSE link \in UNION {ChildLinks(p.stations[s]) : s \in 1..Len(p.stations)} :
    link[1] = path
ReturnedLinks == [i \in 1..Len(last.path) |-> LinkOfPath(planner, last.path[i])]

\* C12: the total cost of the path planPath returns is at most the total cost
\* of every root-to-terminal path through child links of the station graph it
\* was selected from.
C12_ReturnedPathIsCheapest ==
  (last.op = "planPath" /\ last.kind = "path") =>
    \A links \in PathsFrom(planner, planner.root_, Len(planner.stations)) :
      TotalCost(planner, ReturnedLinks) <= TotalCost(planner, links)

\* The input vehicles whose rear, mid and head waypoints all lie at a position
\* of the lattice road: the lattice is built from the first to the last
\* on-route waypoint, so these are the vehicles whose waypoints all snap to a
\* node.
Snappable ==
  {v \in last.ids : \A w \in Range(last.wps[v]) : closestNode(w, 0, RoadLen) /= NoNode}
InputSpan(v) == Range(CollectNodes(last.wps[v][1], last.wps[v][2], last.wps[v][3], 0, RoadLen))
\* Some input vehicle stands on a node of another input vehicle: whichever of
\* the two is registered second finds that node occupied.
InputsCollide == \E u, v \in Snappable : u /= v /\ InputSpan(u) \cap InputSpan(v) /= {}
\* An observed construction for which latticeStartAndRange has computed a
\* start and a range, and the range: from the first to the last on-route
\* waypoint.
RangeComputed ==
  /\ last.op = "TrafficLattice"
  /\ latticeStartAndRange(last.ids, last.wps).defined
  /\ latticeStartAndRange(last.ids, last.wps).err = ""
InputRange == latticeStartAndRange(last.ids, last.wps).range

\* What C18 says of a construction that does not collide.
ConstructedWithAllSnappable ==
  /\ last.err = ""
  /\ DOMAIN Table = Snappable
  /\ last.removed = last.ids \ Snappable

\* C18: the construction fails with the collision error exactly when the
\* registration of an input vehicle finds a node occupied by an input vehicle
\* registered before; otherwise it succeeds, registers the vehicles whose
\* waypoints all snap and reports the others as disappear_vehicles.
C18_Construction ==
  last.op = "TrafficLattice" =>
    /\ last.err = "collision" <=> InputsCollide
    /\ ~InputsCollide => ConstructedWithAllSnappable

\* C19: speedIntervalIdx(s) is 0 for 0 <= s < 13.4112, 1 for 13.4112 <= s <
\* 26.8224, 2 for 26.8224 <= s < 40.2336 and none for s < 0 or s >= 40.2336: a
\* speed equal to an interval end belongs to the interval above it.
C19_SpeedIntervals ==
  last.op = "speedIntervalIdx" =>
    /\ (0 <= last.speed /\ last.speed < 134112) => last.ret = 0
    /\ (134112 <= last.speed /\ last.speed < 268224) => last.ret = 1
    /\ (268224 <= last.speed /\ last.speed < 402336) => last.ret = 2
    /\ (last.speed < 0 \/ last.speed >= 402336) => last.ret = NoInterval

\* The index of a speed that is exactly an interval end has been asked for.
C19_Witness ==
  /\ last.op = "speedIntervalIdx"
  /\ last.speed = 134112
  /\ last.ret = 1

\* Every vertex of the table is in the slot of its own speed interval.
SlotsMatchSpeeds ==
  \A n \in VertexNodeIds, i \in 0..2 :
    node_to_vertices_table_[n][i] /= NullVertex =>
      /\ node_to_vertices_table_[n][i].node = n
      /\ speedIntervalIdx(node_to_vertices_table_[n][i].speed) = i

\* C20: adding a vertex whose ego speed is negative or at least 40.2336 m/s
\* fails with the invalid-speed error and leaves the table unchanged; a vertex
\* of valid speed is stored under its node id and the index of its speed
\* interval, and no vertex of the table is in a slot of another interval.
C20_InvalidSpeedRejected ==
  /\ SlotsMatchSpeeds
  /\ last.op = "addVertexToTable" =>
       IF last.speed < 0 \/ last.speed >= 402336
       THEN /\ last.err = "invalid-speed"
            /\ node_to_vertices_table_ = last.pre
       ELSE /\ last.err = ""
            /\ node_to_vertices_table_ =
                 [last.pre EXCEPT ![last.vertex.node][speedIntervalIdx(last.speed)] = last.vertex]

\* The answer of the car-following model for a vehicle of the snapshot against
\* its lead, the lead being what TrafficLattice::front returns.
AgainstLead(v) ==
  IF front(node_vehicle, vehicle_to_nodes_table_, lattice_root, lattice_end, v) /= NoResult
  THEN world.idm.following ELSE world.idm.free

\* C21: in ConstAccelTrafficSimulator the ego's acceleration is the stored
\* acceleration of the snapshot's ego, and the acceleration of an agent is the
\* answer of the car-following model against the agent's lead, not the
\* agent's stored acceleration.
C21_ConstAccelAgentsFollow ==
  last.simulator = "ConstAccel" =>
    /\ last.op = "egoAcceleration" => last.ret = world.acceleration[world.ego]
    /\ last.op = "agentAcceleration" => last.ret = AgainstLead(last.vehicle)

OnSequence(road) == \E i \in 1..Len(road_sequence_) : road_sequence_[i] = road
LastRoad == road_sequence_[Len(road_sequence_)]

\* C22: for a road of the sequence nextRoad and prevRoad answer a road of the
\* sequence (the first road after the last one, the last road before the
\* first one) and each undoes the other; for a road that is not in the
\* sequence both fail with an error.
C22_RouteIsALoop ==
  last.op \in {"nextRoad", "prevRoad"} =>
    IF OnSequence(last.road)
    THEN /\ last.answer.err = ""
         /\ OnSequence(last.answer.road)
         /\ (last.op = "nextRoad" /\ last.road = LastRoad) => last.answer.road = road_sequence_[1]
         /\ (last.op = "prevRoad" /\ last.road = road_sequence_[1]) => last.answer.road = LastRoad
         /\ last.back = RoadAnswer(last.road)
    ELSE last.answer.err = "not-on-route"

\* The successor of the last road has been asked for.
C22_Witness ==
  /\ last.op = "nextRoad"
  /\ last.road = LastRoad
  /\ last.answer = RoadAnswer(road_sequence_[1])
  /\ last.back = RoadAnswer(LastRoad)

\* C23: a construction whose range is less than or equal to the longitudinal
\* resolution, the resolution itself included, fails with the invalid-range
\* error and has created no lattice node.
C23_RangeWithinResolutionRefused ==
  (RangeComputed /\ InputRange <= longitudinal_resolution_) =>
    /\ last.err = "invalid-range"
    /\ last.ret = 0
    /\ LatticeUnchanged

\* A construction whose range is exactly the resolution has been refused.
C23_Witness ==
  /\ RangeComputed
  /\ InputRange = longitudinal_resolution_
  /\ last.err = "invalid-range"
  /\ last.ret = 0

\* The planner as pruneStationGraph leaves it in the observed tick, and the
\* stations the new root (station 1) has as children there.
PrunedInTick == pruneStationGraph(last.pre, world, last.snapshot).p
ChildrenOf(st) ==
  {child[3] : child \in {st.front_child_, st.left_child_, st.right_child_} \ {NoChild}}

\* The new root has a child on the node of the next station the previous tick
\* cached.
NextStationKept ==
  \E child \in ChildrenOf(PrunedInTick.stations[1]) :
    PrunedInTick.stations[child].id = last.pre.stations[last.pre.cached_next_station_].id

\* The observed tick has a previous root and a next station that is not
\* reached, in surroundings where every path synthesis and simulation succeeds.
TickKeepsNextStation ==
  /\ last.op = "planPath"
  /\ last.ego = last.snapshot.ego
  /\ Locks(last.pre, last.pre.root_)
  /\ ReachedDefined(last.pre, last.snapshot)
  /\ ~Reached(last.pre, last.snapshot)
  /\ world.sim = AllConnect

\* C24 as stated: in a tick with a previous root whose next station is not
\* reached, and where path synthesis and simulation succeed, the graph after
\* pruneStationGraph holds a child of the new root on the node of the next
\* station cached by the previous tick.
C24_NextStationKept_Original ==
  TickKeepsNextStation => NextStationKept

\* The node of the next station cached by the previous tick, the direction in
\* which it lies from the ego, and how far ahead of the ego it is.
CachedNextNode == last.pre.stations[last.pre.cached_next_station_].id
DirToCachedNext ==
  IF CachedNextNode[1] = last.snapshot.node[1] THEN "front"
  ELSE IF CachedNextNode[1] < last.snapshot.node[1] THEN "left" ELSE "right"
DistanceToCachedNext == CachedNextNode[2] - last.snapshot.node[2]

\* The cached next node lies in the ego's lane or in a lane next to it, the
\* connection towards it is admissible (a lane change needs the node 20 m
\* ahead and no vehicle alongside) and the simulated ego gets to the node
\* within the 5 s.
CachedNextConnectable ==
  /\ CachedNextNode[1] - last.snapshot.node[1] \in {0 - 1, 0, 1}
  /\ DirToCachedNext /= "front" =>
       DistanceToCachedNext >= 20 * Metre /\ ~last.snapshot.beside
  /\ world.cover[DirToCachedNext] >= DistanceToCachedNext

\* C24: in a tick with a previous root whose next station is not reached,
\* where path synthesis and simulation succeed, the graph after
\* pruneStationGraph holds a child of the new root on the node of the cached
\* next station, provided that node is in the ego's lane or the next one, the
\* connection to it is admissible and the simulation gets to the node.
C24_NextStationKept ==
  (TickKeepsNextStation /\ CachedNextConnectable) => NextStationKept

\* A tick that keeps a next station reached by a lane change, less than 50 m
\* ahead of the ego.
C24_Witness ==
  /\ TickKeepsNextStation
  /\ CachedNextConnectable
  /\ DirToCachedNext /= "front"
  /\ DistanceToCachedNext < 50 * Metre
  /\ NextStationKept

\* The observed tick got as far as constructStationGraph: the lattice was
\* updated and the graph pruned within defined behaviour, and the queue handed
\* to constructStationGraph was not empty.  The planner then holds the
\* constructed graph.
UpdatedInTick == updateWaypointLattice(last.pre, last.snapshot)
PrunedOfTick == pruneStationGraph(UpdatedInTick.p, world, last.snapshot)
TickConstructs ==
  /\ last.op = "planPath"
  /\ last.ego = last.snapshot.ego
  /\ UpdatedInTick.defined
  /\ PrunedOfTick.defined
  /\ PrunedOfTick.queue /= << >>

\* The stations the table of the planner holds.
StoredStations ==
  {planner.node_to_station_table_[i][2] : i \in 1..Len(planner.node_to_station_table_)}

\* The parent entries of a station with the child link of the parent they were
\* made with: the back parent with the front child, the right parent with the
\* left child, the left parent with the right child.
ParentEntries(s) ==
  {e \in {<<planner.stations[s].back_parent_, "front">>,
           <<planner.stations[s].right_parent_, "left">>,
           <<planner.stations[s].left_parent_, "right">>} : e[1] /= NoParent}
ChildLink(q, dir) ==
  IF dir = "front" THEN planner.stations[q].front_child_
  ELSE IF dir = "left" THEN planner.stations[q].left_child_
  ELSE planner.stations[q].right_child_

\* A parent entry of s holds the cost-to-come of the parent plus the stage
\* cost of the edge from the parent to s, the stage cost alone when the parent
\* is the root.
EntryHoldsCost(s, e) ==
  /\ ChildLink(e[1][3], e[2]) /= NoChild
  /\ ChildLink(e[1][3], e[2])[3] = s
  /\ e[1][2] = IF e[1][3] = planner.root_ THEN ChildLink(e[1][3], e[2])[2]
               ELSE costToCome(planner.stations[e[1][3]]) + ChildLink(e[1][3], e[2])[2]

\* The stage cost of the edge the optimal parent of s was stored with.
OptimalStageCost(s) ==
  LET e == CHOOSE e \in ParentEntries(s) : e[1] = planner.stations[s].optimal_parent_
  IN ChildLink(e[1][3], e[2])[2]

\* The sum of the stage costs along the optimal parents of s back to the
\* root; NoChain when the optimal parents do not lead to the root.
NoChain == 0 - 1
RECURSIVE ChainCost(_, _)
ChainCost(s, passed) ==
  IF s = planner.root_ THEN 0
  ELSE IF s \in passed \/ ~hasParent(planner.stations[s]) THEN NoChain
  ELSE IF ChainCost(planner.stations[s].optimal_parent_[3], passed \cup {s}) = NoChain
  THEN NoChain
  ELSE OptimalStageCost(s)
       + ChainCost(planner.stations[s].optimal_parent_[3], passed \cup {s})

\* C25: after constructStationGraph every parent entry of a station other
\* than the root holds the cost-to-come of that parent plus the stage cost of
\* the connecting edge (the stage cost alone when the parent is the root), and
\* the cost-to-come of the station is the sum of the stage costs along its
\* optimal parents back to the root.
C25_CostToComeIsChainSum ==
  TickConstructs =>
    \A s \in StoredStations \ {planner.root_} :
      /\ \A e \in ParentEntries(s) : EntryHoldsCost(s, e)
      /\ costToCome(planner.stations[s]) = ChainCost(s, {})

\* The graph constructStationGraph leaves in the observed tick, with the
\* history of its queue.
ConstructedInTick ==
  constructStationGraph(
    Graph(PrunedOfTick.p.stations, PrunedOfTick.p.node_to_station_table_, PrunedOfTick.queue,
          PrunedOfTick.p.waypoint_lattice_, world))

\* Every child station pushed stands on the node its connection aimed at.
PushedOnTarget(stations, pushed) ==
  \A i \in 1..Len(pushed) : stations[pushed[i][1]].id = pushed[i][2]

\* No station occurs twice in the sequence of the stations popped.
ExpandedOnce(expanded) ==
  \A i, j \in 1..Len(expanded) : expanded[i] = expanded[j] => i = j

\* C26: in a tick that gets as far as constructStationGraph, a child station
\* is pushed on the queue, by pruneStationGraph or by constructStationGraph,
\* only if its id is the id of the node its connection aimed at, and no
\* station is popped from the queue more than once.
C26_QueuedOnTargetExpandedOnce ==
  TickConstructs =>
    /\ PushedOnTarget(PrunedOfTick.p.stations, PrunedOfTick.pushed)
    /\ PushedOnTarget(ConstructedInTick.stations, ConstructedInTick.pushed)
    /\ ExpandedOnce(ConstructedInTick.expanded)

\* A tick on a pruned graph in which pruneStationGraph and
\* constructStationGraph both pushed a child, a child that halted before the
\* node aimed at was stored without being pushed, and more than one station
\* was expanded.
C26_Witness ==
  /\ TickConstructs
  /\ PrunedOfTick.pushed /= << >>
  /\ ConstructedInTick.pushed /= << >>
  /\ Len(ConstructedInTick.expanded) > 1
  /\ \E s \in StoredStations \ {1} :
       /\ \A i \in 1..Len(ConstructedInTick.pushed) : ConstructedInTick.pushed[i][1] /= s
       /\ \A i \in 1..Len(PrunedOfTick.pushed) : PrunedOfTick.pushed[i][1] /= s

\* An observed call of moveTrafficForward that raised no error; the start and
\* range recomputed from its updated vehicles, the node of the lattice before
\* the call that are closest to that start (one for each waypoint the start can
\* be, all at one position), and the range the call hands to
\* shorten (line 638).
MovedWithoutError == last.op = "moveTrafficForward" /\ last.err = ""
UpdateStartAndRange == latticeStartAndRange(last.ids, last.wps)
StartNodesOfUpdate == UpdateStartNodes(UpdateStartAndRange, last.pre_root, last.pre_end)
UpdateStartPosition == Only({n[2] : n \in StartNodesOfUpdate})
ShortenRange ==
  (last.pre_end - last.pre_root) - Only({NodeDistance(n, last.pre_root) : n \in StartNodesOfUpdate})

\* The lattice is anchored at the new root: the root is at the node closest to
\* the recomputed start (distance 0, nothing behind it is left) and the range
\* is at least the recomputed range.
AnchoredAtUpdateStart ==
  /\ lattice_root = UpdateStartPosition
  /\ \A start \in StartNodesOfUpdate : NodeDistance(start, lattice_root) = 0
  /\ \A n \in RoadNodes : n[2] < UpdateStartPosition => closestNode(n, lattice_root, lattice_end) = NoNode
  /\ lattice_end - lattice_root >= UpdateStartAndRange.range

\* C27: after moveTrafficForward without an error the lattice is anchored at
\* the new root, and the root has advanced by the range handed to shorten.
C27_AnchoredAtNewRoot ==
  MovedWithoutError =>
    /\ AnchoredAtUpdateStart
    /\ lattice_root - last.pre_root = ShortenRange

\* The observed tick is made on a planner that has planned before, with the
\* ego at its cached next station: updateWaypointLattice shifts the lattice.
TickShifts ==
  /\ last.op = "planPath"
  /\ last.ego = last.snapshot.ego
  /\ last.pre.waypoint_lattice_ /= NoLattice
  /\ ReachedDefined(last.pre, last.snapshot)
  /\ Reached(last.pre, last.snapshot)

\* Line 343: the distance handed to shift.
ShiftDistanceInTick ==
  WaypointDistance(last.pre.waypoint_lattice_,
                   WaypointClosestNode(last.pre.waypoint_lattice_, last.snapshot.node))
  - 5 * Metre

\* C28: in a tick after the first in which the cached next station is
\* reached, the waypoint lattice is shifted by the distance of the ego's node
\* minus 5 m, this distance is not negative, and afterwards the ego's closest
\* node is 5 m from the root of the lattice.
C28_ShiftKeepsFiveMetres ==
  TickShifts =>
    /\ ShiftDistanceInTick >= 0
    /\ planner.waypoint_lattice_ = WaypointShift(last.pre.waypoint_lattice_, ShiftDistanceInTick)
    /\ WaypointDistance(planner.waypoint_lattice_,
                        WaypointClosestNode(planner.waypoint_lattice_, last.snapshot.node))
         = 5 * Metre

\* In the observed call the planner has a lattice that holds the ego's node
\* and the node of the cached next station, and the ego is past that station
\* (target_distance < ego_distance).
EgoPastNextStation ==
  /\ last.op \in {"planPath", "immediateNextStationReached"}
  /\ last.op = "planPath" => last.ego = last.snapshot.ego
  /\ last.pre.waypoint_lattice_ /= NoLattice
  /\ ReachedDefined(last.pre, last.snapshot)
  /\ WaypointDistance(last.pre.waypoint_lattice_,
                      last.pre.stations[last.pre.cached_next_station_].id)
       < WaypointDistance(last.pre.waypoint_lattice_,
                          WaypointClosestNode(last.pre.waypoint_lattice_, last.snapshot.node))

\* C29 as stated: with the ego past the cached next station
\* immediateNextStationReached returns false and planPath does not shift the
\* lattice.
C29_PastStationNotReached_Original ==
  EgoPastNextStation =>
    /\ last.op = "immediateNextStationReached" => last.ret = FALSE
    /\ last.op = "planPath" => planner.waypoint_lattice_ = last.pre.waypoint_lattice_

\* C29: with the ego past the cached next station
\* immediateNextStationReached returns true, and planPath shifts the lattice
\* by the distance of the ego's node minus 5 m.
C29_PastStationReached ==
  EgoPastNextStation =>
    /\ last.op = "immediateNextStationReached" => last.ret = TRUE
    /\ last.op = "planPath" =>
         planner.waypoint_lattice_
           = WaypointShift(last.pre.waypoint_lattice_, ShiftDistanceInTick)

\* A tick with the ego past its cached next station that moved the root of
\* the lattice forward.
C29_Witness ==
  /\ EgoPastNextStation
  /\ last.op = "planPath"
  /\ last.kind = "path"
  /\ planner.waypoint_lattice_.start > last.pre.waypoint_lattice_.start

\* The ego of the observed connection is off the lane centre on the wrong
\* side: more than 0.5 m to the right for a change to the left, more than
\* 0.5 m to the left for a change to the right.
OffsetOnWrongSide ==
  \/ last.op = "connectStationToLeftFrontNode" /\ last.env.offset > 5
  \/ last.op = "connectStationToRightFrontNode" /\ last.env.offset < 0 - 5

\* C30: connectStationToLeftFrontNode and connectStationToRightFrontNode
\* return no station and set no link when the target node is less than 20 m
\* ahead of the station or the ego is more than 0.5 m off the lane centre on
\* the wrong side; connectStationToFrontNode connects whenever the target
\* exists, the path is built and the simulation succeeds, whatever the
\* distance and the offset.
C30_LaneChangeRestrictions ==
  /\ (/\ last.op \in {"connectStationToLeftFrontNode", "connectStationToRightFrontNode"}
      /\ last.env.target
      /\ ~last.env.far \/ OffsetOnWrongSide)
       => ~last.out.station /\ ~last.out.linked /\ ~last.out.simulated
  /\ (/\ last.op = "connectStationToFrontNode"
      /\ last.env.target /\ last.env.path /\ last.env.sim = "ok")
       => last.out.station /\ last.out.linked

\* A change to the left towards a node less than 20 m ahead, with nothing in
\* the left lane and a path and a simulation that would succeed, is refused.
C30_Witness ==
  /\ last.op = "connectStationToLeftFrontNode"
  /\ last.env.target /\ ~last.env.far /\ last.env.path /\ last.env.sim = "ok"
  /\ leftFront(node_vehicle, vehicle_to_nodes_table_, lattice_root, lattice_end, last.id)
       = NoResult
  /\ leftBack(node_vehicle, vehicle_to_nodes_table_, lattice_root, lattice_end, last.id)
       = NoResult
  /\ ~last.out.station

\* The road k roads after, and k roads before, a road of the route.
RECURSIVE RoadAhead(_, _)
RoadAhead(road, k) == IF k = 0 THEN road ELSE RoadAhead(nextRoad(road).road, k - 1)
RECURSIVE RoadBehind(_, _)
RoadBehind(road, k) == IF k = 0 THEN road ELSE RoadBehind(prevRoad(road).road, k - 1)

\* Every input road is covered by 8 expansions from the seed: it is the seed,
\* or at most 8 roads after or before it.
CoveredFromSeed(roads, seed) ==
  \A road \in roads :
    \E k \in 0..ExpansionTimes : RoadAhead(seed, k) = road \/ RoadBehind(seed, k) = road

\* C31: a chain returned by sortRoads holds every input road, begins and ends
\* with an input road, and each of its roads is followed by its nextRoad;
\* sortRoads fails, with the error of the roads that cannot be sorted, exactly
\* when an input road is not covered after 8 expansions.
C31_SortedChain ==
  last.op = "sortRoads" =>
    /\ last.err = "" =>
         /\ \A road \in world : \E i \in 1..Len(last.sorted) : last.sorted[i] = road
         /\ last.sorted /= << >>
         /\ Head(last.sorted) \in world
         /\ last.sorted[Len(last.sorted)] \in world
         /\ \A i \in 1..(Len(last.sorted) - 1) :
              last.sorted[i + 1] = nextRoad(last.sorted[i]).road
    /\ last.err = "roads-not-on-local-chain" <=> ~CoveredFromSeed(world, last.seed)
    /\ last.err \in {"", "roads-not-on-local-chain"}

\* Three roads sorted into a chain that was trimmed at both ends and that
\* passes the end of road_sequence_.
C31_Witness ==
  /\ last.op = "sortRoads"
  /\ last.err = ""
  /\ Cardinality(world) = 3
  /\ Head(last.sorted) /= last.seed
  /\ last.sorted[Len(last.sorted)] /= last.seed
  /\ Len(last.sorted) > 3
  /\ \E i \in 1..(Len(last.sorted) - 1) :
       last.sorted[i] = road_sequence_[Len(road_sequence_)] /\ last.sorted[i + 1] = road_sequence_[1]

\* C38: for a fixed set of input roads, whether sortRoads succeeds and the
\* chain it returns are the same whichever input road is taken as the seed.
C38_SeedIndependent ==
  last.op = "sortRoads" =>
    \A seed \in world :
      /\ sortRoads(world, seed).err = last.err
      /\ sortRoads(world, seed).sorted = last.sorted

\* The observed tick got past updateWaypointLattice and pruneStationGraph
\* within defined behaviour and left a station graph that holds the root only:
\* no child of the root was connected.
RootOnlyTick ==
  /\ last.op = "planPath"
  /\ last.ego = last.snapshot.ego
  /\ UpdatedInTick.defined
  /\ PrunedOfTick.defined
  /\ StoredStations = {planner.root_}
  /\ ChildrenOf(planner.stations[planner.root_]) = {}

\* C32: a tick in which no child of the root can be connected (the station
\* graph is the root only) fails with the no-terminal error, returns no path,
\* and leaves the cached next station as it was.
C32_RootOnlyFailsNoTerminal ==
  RootOnlyTick =>
    /\ last.kind = "error"
    /\ last.err = "no-terminal"
    /\ last.path = << >>
    /\ planner.cached_next_station_ = last.pre.cached_next_station_

\* The stations designated by the links of a station: its children, its
\* parents and its optimal parent.
ParentsOf(st) ==
  {parent[3] : parent \in {st.back_parent_, st.left_parent_, st.right_parent_,
                           st.optimal_parent_} \ {NoParent}}
LinkedStations(st) == ChildrenOf(st) \cup ParentsOf(st)

\* Every link of a station the table of p holds designates a station the
\* table holds, and so does root_.
LinksStored(p) ==
  /\ Locks(p, p.root_)
  /\ \A i \in 1..Len(p.node_to_station_table_) :
       \A stn \in LinkedStations(p.stations[p.node_to_station_table_[i][2]]) : Locks(p, stn)

\* The observed tick returned a path.
TickReturnsPath ==
  /\ last.op = "planPath"
  /\ last.kind = "path"

\* C33: in a tick that returns a path, after pruneStationGraph, after
\* constructStationGraph and at the return, every station designated by a
\* child link, parent link or optimal-parent link of a station of
\* node_to_station_table_, and by root_, is held by the table under its id, and
\* at the return so is the station designated by cached_next_station_.
C33_LinksDesignateStoredStations ==
  TickReturnsPath =>
    /\ LinksStored(PrunedOfTick.p)
    /\ LinksStored(WithGraph(PrunedOfTick.p, ConstructedInTick))
    /\ LinksStored(planner)
    /\ Locks(planner, planner.cached_next_station_)

\* Every child link of station s of the planner's graph leads to a station
\* whose node is farther along the lattice than the node of s.
ChildrenFarther(s) ==
  \A child \in ChildrenOf(planner.stations[s]) :
    WaypointDistance(planner.waypoint_lattice_, planner.stations[child].id)
      > WaypointDistance(planner.waypoint_lattice_, planner.stations[s].id)

\* The stations reached from s along child links in at most k steps.
RECURSIVE Descendants(_, _)
Descendants(s, k) ==
  IF k = 0 THEN {}
  ELSE ChildrenOf(planner.stations[s])
       \cup UNION {Descendants(child, k - 1) : child \in ChildrenOf(planner.stations[s])}

\* C34: in the station graph pruneStationGraph and constructStationGraph
\* build, each child link leads to a station whose waypoint-node distance is
\* strictly greater than that of the parent, the root has no parent, and no
\* station is its own ancestor.
C34_ChildrenStrictlyAhead ==
  TickConstructs =>
    /\ \A s \in StoredStations : ChildrenFarther(s)
    /\ ~hasParent(planner.stations[planner.root_])
    /\ \A s \in StoredStations : s \notin Descendants(s, Len(planner.stations))

\* C35: every planPath call terminates: the trace-back loop of
\* selectOptimalPath reaches the root (constructStationGraph always empties
\* its queue in the model, the lattice being finite).
C35_PlanPathTerminates ==
  last.op = "planPath" => last.kind /= "diverges"

\* The observed tick evaluates immediateNextStationReached twice: in
\* updateWaypointLattice (the planner has a lattice, and the call stays within
\* defined behaviour) and in pruneStationGraph (the root is alive).
TickEvaluatesReachedTwice ==
  /\ last.op = "planPath"
  /\ last.ego = last.snapshot.ego
  /\ last.pre.waypoint_lattice_ /= NoLattice
  /\ UpdatedInTick.defined
  /\ Locks(UpdatedInTick.p, UpdatedInTick.p.root_)

\* C36: within one tick the node of the cached next station still exists in
\* the waypoint lattice when pruneStationGraph reads it, after any shift made
\* by updateWaypointLattice, and immediateNextStationReached gives there what
\* it gave in updateWaypointLattice.
C36_ReachedStableWithinTick ==
  TickEvaluatesReachedTwice =>
    /\ ReachedDefined(UpdatedInTick.p, last.snapshot)
    /\ Reached(UpdatedInTick.p, last.snapshot) = Reached(last.pre, last.snapshot)

\* The node list addVehicle collected in the observed call (the three
\* waypoints snapped to nodes of the lattice before the call).
AddedSpan ==
  CollectNodes(closestNode(last.wp[1], last.pre_root, last.pre_end),
               closestNode(last.wp[2], last.pre_root, last.pre_end),
               closestNode(last.wp[3], last.pre_root, last.pre_end),
               last.pre_root, last.pre_end)
AddCollectedNodes ==
  /\ last.op = "addVehicle"
  /\ last.id \notin DOMAIN last.pre_table
  /\ \A i \in 1..3 : closestNode(last.wp[i], last.pre_root, last.pre_end) /= NoNode

\* C37: the node list addVehicle collects holds no node twice, and the call
\* returns -1 only if a node of the list was occupied by another vehicle
\* before the call.
C37_CollisionOnlyWithOtherVehicle ==
  AddCollectedNodes =>
    /\ \A i, j \in 1..Len(AddedSpan) : AddedSpan[i] = AddedSpan[j] => i = j
    /\ last.ret = 0 - 1 =>
         \E n \in Range(AddedSpan) : last.pre_vehicle[n] \notin {NoVehicle, last.id}

\* A vehicle changing lanes, on three nodes, is refused because another
\* vehicle stands on one of them.
C37_Witness ==
  /\ AddCollectedNodes
  /\ last.ret = 0 - 1
  /\ Len(AddedSpan) = 3
  /\ AddedSpan[1][1] /= AddedSpan[3][1]
  /\ \E n \in Range(AddedSpan) : last.pre_vehicle[n] \notin {NoVehicle, last.id}

\* What front and back give for a registered vehicle on the lattice of the
\* current state (a query changes nothing).
FrontOf(v) == front(node_vehicle, vehicle_to_nodes_table_, lattice_root, lattice_end, v)
BackOf(v) == back(node_vehicle, vehicle_to_nodes_table_, lattice_root, lattice_end, v)

\* front(v) gives (u, d) exactly when back(u) gives (v, d).
FrontIsBackOf(v, u) ==
  /\ (FrontOf(v) /= NoResult /\ FrontOf(v)[1] = u) => BackOf(u) = <<v, FrontOf(v)[2]>>
  /\ (BackOf(u) /= NoResult /\ BackOf(u)[1] = v) => FrontOf(v) = <<u, BackOf(u)[2]>>

\* The observed call is front or back of a registered vehicle.
FrontOrBackQueried ==
  /\ last.op \in {"front", "back"}
  /\ last.err = ""

\* C39 as stated: for any two distinct registered vehicles u and v, front(v)
\* gives (u, d) if and only if back(u) gives (v, d).
C39_FrontIsBack_Original ==
  FrontOrBackQueried =>
    \A u, v \in DOMAIN vehicle_to_nodes_table_ : u /= v => FrontIsBackOf(v, u)

\* All nodes of the vehicle are on one lane.
OnOneLane(v) ==
  \A i \in 1..Len(vehicle_to_nodes_table_[v]) :
    vehicle_to_nodes_table_[v][i][1] = vehicle_to_nodes_table_[v][1][1]

\* C39: for two distinct registered vehicles u and v of which neither is
\* changing lanes (each has all its nodes on one lane), front(v) gives (u, d)
\* if and only if back(u) gives (v, d).
C39_FrontIsBack ==
  FrontOrBackQueried =>
    \A u, v \in DOMAIN vehicle_to_nodes_table_ :
      (u /= v /\ OnOneLane(u) /\ OnOneLane(v)) => FrontIsBackOf(v, u)

\* front was asked of a vehicle that has another vehicle ahead of it in its
\* lane, with a free node between them, neither changing lanes.
C39_Witness ==
  /\ last.op = "front"
  /\ last.err = ""
  /\ last.res /= NoResult
  /\ last.res[2] > 1
  /\ OnOneLane(last.id) /\ OnOneLane(last.res[1])
  /\ BackOf(last.res[1]) = <<last.id, last.res[2]>>
====
